---------------------------- MODULE Spec2Model ----------------------------
(***************************************************************************)
(* Model of the stream validation and reduction pipeline of                *)
(* live-source-manager: StreamTester (src/app/stream_tester.py), the       *)
(* qualified-tier filter of EnhancedM3UGenerator (src/app/m3u_generator.py)*)
(* and the per-channel cap of M3UGenerator.group_and_sort_sources          *)
(* (src/app/main.py).                                                      *)
(*                                                                         *)
(* Python dicts are functions whose domain is the set of keys present;     *)
(* Get(d, k, default) is dict.get.  Python strings are TLA+ strings, taken *)
(* apart with Len and SubSeq.  None is modelled by the integer NONE where  *)
(* the code stores it in a field that otherwise holds a number.            *)
(***************************************************************************)
EXTENDS Integers, Sequences, FiniteSets, TLC

\* ------------------------------------------------------------------------
\* Python primitives
\* ------------------------------------------------------------------------

\* None, in a numeric field (response_time).
NONE == -1

\* d.get(k, default)
Get(d, k, default) == IF k \in DOMAIN d THEN d[k] ELSE default

\* {**a, **b}: the keys of both, b's value where both have the key.
Merge(a, b) == b @@ a

\* the elements of a list
Range(seq) == {seq[k] : k \in DOMAIN seq}

\* the i-th character of s, as a one-character string
CharAt(s, i) == SubSeq(s, i, i)

\* c in s, for a one-character c
HasChar(s, c) == \E i \in 1..Len(s) : CharAt(s, i) = c

\* the number of occurrences of the character c in s
CountChar(s, c) == Cardinality({i \in 1..Len(s) : CharAt(s, i) = c})

\* the position of the first occurrence of c in s (s contains c)
FirstIndex(s, c) == CHOOSE i \in 1..Len(s) :
                        /\ CharAt(s, i) = c
                        /\ \A j \in 1..(i-1) : CharAt(s, j) # c

Digits == {"0", "1", "2", "3", "4", "5", "6", "7", "8", "9"}

DigitVal(c) == CASE c = "0" -> 0 [] c = "1" -> 1 [] c = "2" -> 2 [] c = "3" -> 3
                 [] c = "4" -> 4 [] c = "5" -> 5 [] c = "6" -> 6 [] c = "7" -> 7
                 [] c = "8" -> 8 [] c = "9" -> 9

DigitChar(d) == CASE d = 0 -> "0" [] d = 1 -> "1" [] d = 2 -> "2" [] d = 3 -> "3"
                  [] d = 4 -> "4" [] d = 5 -> "5" [] d = 6 -> "6" [] d = 7 -> "7"
                  [] d = 8 -> "8" [] d = 9 -> "9"

\* int(s) succeeds: s is a non-empty run of decimal digits.  (The strings of
\* this model carry no sign, blank or underscore, the other forms int() takes.)
IsInt(s) == Len(s) > 0 /\ \A i \in 1..Len(s) : CharAt(s, i) \in Digits

\* int(s), for IsInt(s)
RECURSIVE StrToInt(_)
StrToInt(s) == IF Len(s) = 0 THEN 0
               ELSE 10 * StrToInt(SubSeq(s, 1, Len(s) - 1)) + DigitVal(CharAt(s, Len(s)))

\* str(n), for n >= 0
RECURSIVE IntToStr(_)
IntToStr(n) == IF n < 10 THEN DigitChar(n)
               ELSE IntToStr(n \div 10) \o DigitChar(n % 10)

\* f"{width}x{height}"
FormatResolution(width, height) == IntToStr(width) \o "x" \o IntToStr(height)

\* ------------------------------------------------------------------------
\* Resolution bounds (StreamTester)
\* ------------------------------------------------------------------------

\* parse_resolution: (width, height) of "WxH" or "<N>p"; `dflt` is the pair
\* the enclosing function returns for a string it cannot parse.
parse_resolution(res, dflt) ==
    IF HasChar(res, "x")
    THEN IF CountChar(res, "x") = 1                       \* len(parts) == 2
         THEN LET k  == FirstIndex(res, "x")
                  p0 == SubSeq(res, 1, k - 1)
                  p1 == SubSeq(res, k + 1, Len(res))
              IN  IF IsInt(p0) /\ IsInt(p1)
                  THEN <<StrToInt(p0), StrToInt(p1)>>
                  ELSE dflt                               \* except ValueError
         ELSE dflt                                        \* falls to the last return
    ELSE IF Len(res) > 0 /\ CharAt(res, Len(res)) = "p"   \* res.endswith('p')
         THEN LET n == SubSeq(res, 1, Len(res) - 1)
              IN  IF IsInt(n)
                  THEN <<(StrToInt(n) * 16) \div 9, StrToInt(n)>>
                  ELSE dflt
         ELSE dflt

is_resolution_meet_min(resolution, min_resolution) ==
    IF resolution = "" \/ min_resolution = "" THEN TRUE
    ELSE LET r == parse_resolution(resolution, <<0, 0>>)
             m == parse_resolution(min_resolution, <<0, 0>>)
         IN  r[1] >= m[1] /\ r[2] >= m[2]

\* a maximum check that reads an unparsable string as 0x0, like the minimum
\* check
is_resolution_meet_max_reads_zero(resolution, max_resolution) ==
    IF resolution = "" \/ max_resolution = "" THEN TRUE
    ELSE LET r == parse_resolution(resolution, <<0, 0>>)
             m == parse_resolution(max_resolution, <<0, 0>>)
         IN  r[1] <= m[1] /\ r[2] <= m[2]

is_resolution_meet_max(resolution, max_resolution) ==
    IF resolution = "" \/ max_resolution = "" THEN TRUE
    ELSE LET r == parse_resolution(resolution, <<9999, 9999>>)
             m == parse_resolution(max_resolution, <<9999, 9999>>)
         IN  r[1] <= m[1] /\ r[2] <= m[2]

\* The resolution block shared by check_if_qualified and the filters:
\* TRUE iff the source is not rejected by the resolution bounds.
resolution_ok(resolution, fp) ==
    IF fp.min_resolution # "" \/ fp.max_resolution # ""
    THEN CASE fp.resolution_filter_mode = "range" ->
                 /\ (fp.min_resolution # "" => is_resolution_meet_min(resolution, fp.min_resolution))
                 /\ (fp.max_resolution # "" => is_resolution_meet_max(resolution, fp.max_resolution))
           [] fp.resolution_filter_mode = "min_only" ->
                 (fp.min_resolution # "" => is_resolution_meet_min(resolution, fp.min_resolution))
           [] fp.resolution_filter_mode = "max_only" ->
                 (fp.max_resolution # "" => is_resolution_meet_max(resolution, fp.max_resolution))
           [] OTHER -> TRUE
    ELSE TRUE

\* the download-speed check of check_if_qualified: TRUE iff not rejected
speed_check(result, fp) ==
    LET speed == Get(result, "download_speed", 0)
    IN  ~(speed > 0 /\ speed < fp.min_speed)

\* a qualification whose bitrate test looks the wrong way
check_if_qualified_bitrate_reversed(result, fp) ==
    IF Get(result, "status", "") # "success" THEN FALSE
    ELSE IF Get(result, "media_type", "video") \in {"radio", "audio"}
    THEN Get(result, "response_time", 9999) <= fp.max_latency
    ELSE IF Get(result, "response_time", 9999) > fp.max_latency THEN FALSE
    ELSE IF ~resolution_ok(Get(result, "resolution", ""), fp) THEN FALSE
    ELSE IF Get(result, "bitrate", 0) > 0 /\ Get(result, "bitrate", 0) > fp.min_bitrate THEN FALSE
    ELSE IF fp.must_hd /\ ~Get(result, "is_hd", FALSE) THEN FALSE
    ELSE IF fp.must_4k /\ ~Get(result, "is_4k", FALSE) THEN FALSE
    ELSE speed_check(result, fp)

\* a qualification that lets every audio or radio source through
check_if_qualified_audio_unchecked(result, fp) ==
    IF Get(result, "status", "") # "success" THEN FALSE
    ELSE IF Get(result, "media_type", "video") \in {"radio", "audio"}
    THEN TRUE
    ELSE IF Get(result, "response_time", 9999) > fp.max_latency THEN FALSE
    ELSE IF ~resolution_ok(Get(result, "resolution", ""), fp) THEN FALSE
    ELSE IF Get(result, "bitrate", 0) > 0 /\ Get(result, "bitrate", 0) < fp.min_bitrate THEN FALSE
    ELSE IF fp.must_hd /\ ~Get(result, "is_hd", FALSE) THEN FALSE
    ELSE IF fp.must_4k /\ ~Get(result, "is_4k", FALSE) THEN FALSE
    ELSE speed_check(result, fp)

\* StreamTester.check_if_qualified(result) under filter_params fp
check_if_qualified(result, fp) ==
    IF Get(result, "status", "") # "success" THEN FALSE
    ELSE IF Get(result, "media_type", "video") \in {"radio", "audio"}
    THEN Get(result, "response_time", 9999) <= fp.max_latency
    ELSE IF Get(result, "response_time", 9999) > fp.max_latency THEN FALSE
    ELSE IF ~resolution_ok(Get(result, "resolution", ""), fp) THEN FALSE
    ELSE IF Get(result, "bitrate", 0) > 0 /\ Get(result, "bitrate", 0) < fp.min_bitrate THEN FALSE
    ELSE IF fp.must_hd /\ ~Get(result, "is_hd", FALSE) THEN FALSE
    ELSE IF fp.must_4k /\ ~Get(result, "is_4k", FALSE) THEN FALSE
    ELSE speed_check(result, fp)

\* the download-speed check of enhanced_filter_sources: TRUE iff not rejected
enhanced_speed_check(source, fp) ==
    LET speed == Get(source, "download_speed", 0)
    IN  ~(speed < fp.min_speed)

\* one turn of the loop of enhanced_filter_sources: TRUE iff the source is
\* appended to `filtered`.  (The generator's is_resolution_meet_min and
\* is_resolution_meet_max are copies of the tester's.)
enhanced_keep(source, fp) ==
    IF Get(source, "status", "") # "success" THEN FALSE
    ELSE IF Get(source, "media_type", "video") \in {"radio", "audio"}
    THEN Get(source, "response_time", 9999) <= fp.max_latency
    ELSE IF Get(source, "response_time", 9999) > fp.max_latency THEN FALSE
    ELSE IF ~resolution_ok(Get(source, "resolution", ""), fp) THEN FALSE
    ELSE IF Get(source, "bitrate", 0) > 0 /\ Get(source, "bitrate", 0) < fp.min_bitrate THEN FALSE
    ELSE IF fp.must_hd /\ ~Get(source, "is_hd", FALSE) THEN FALSE
    ELSE IF fp.must_4k /\ ~Get(source, "is_4k", FALSE) THEN FALSE
    ELSE enhanced_speed_check(source, fp)

\* EnhancedM3UGenerator.enhanced_filter_sources(sources) under filter_params fp
enhanced_filter_sources(sources, fp) ==
    SelectSeq(sources, LAMBDA source : enhanced_keep(source, fp))

\* ------------------------------------------------------------------------
\* The external inspection (ffprobe) and metadata extraction
\* ------------------------------------------------------------------------

\* _extract_video_stream_info(stream): the keys it sets.  (codec, profile,
\* level, frame rate and pixel format are read by no modelled operation.)
_extract_video_stream_info(stream) ==
    LET width  == Get(stream, "width", 0)
        height == Get(stream, "height", 0)
    IN  IF width # 0 /\ height # 0
        THEN [resolution |-> FormatResolution(width, height),
              is_hd      |-> height >= 720,
              is_4k      |-> height >= 2160]
        ELSE << >>

\* the loop of extract_metadata over data['streams'], from metadata m
RECURSIVE scan_streams(_, _)
scan_streams(streams, m) ==
    IF streams = << >> THEN m
    ELSE LET stream == Head(streams)
             ct     == Get(stream, "codec_type", "unknown")
             m1     == [m EXCEPT !.stream_count = @ + 1]
             m2     == IF ct = "video"
                       THEN Merge([m1 EXCEPT !.has_video_stream = TRUE],
                                  _extract_video_stream_info(stream))
                       ELSE IF ct = "audio"
                       THEN [m1 EXCEPT !.has_audio_stream = TRUE]
                       ELSE m1
         IN  scan_streams(Tail(streams), m2)

\* the first video stream of the list (video_streams[0]); << >> if none
first_video(streams) ==
    LET vs == SelectSeq(streams, LAMBDA st : Get(st, "codec_type", "unknown") = "video")
    IN  IF vs = << >> THEN << >> ELSE Head(vs)

\* extract_metadata(data): the fields that later operations read
extract_metadata(data) ==
    LET m0 == [bitrate |-> 0, resolution |-> "", is_hd |-> FALSE, is_4k |-> FALSE,
               has_video_stream |-> FALSE, has_audio_stream |-> FALSE,
               stream_count |-> 0, media_type |-> "unknown"]
        fmt == Get(data, "format", << >>)
        m1 == IF "format" \in DOMAIN data /\ "bit_rate" \in DOMAIN fmt /\ IsInt(fmt.bit_rate)
              THEN [m0 EXCEPT !.bitrate = StrToInt(fmt.bit_rate) \div 1000]
              ELSE m0
        streams == Get(data, "streams", << >>)
        m2 == scan_streams(streams, m1)
        mv == first_video(streams)
    IN  IF mv # << >> /\ m2.resolution = ""
           /\ Get(mv, "width", 0) # 0 /\ Get(mv, "height", 0) # 0
        THEN [m2 EXCEPT !.resolution = FormatResolution(mv.width, mv.height),
                        !.is_hd = mv.height >= 720,
                        !.is_4k = mv.height >= 2160]
        ELSE m2

\* an inspection that extracts the metadata before it looks at the streams
test_stream_url_extracts_first(proc) ==
    CASE proc.kind = "timeout" -> <<"timeout", [error_reason |-> "timeout"]>>
      [] proc.kind = "oserror" -> <<"failed", [error_reason |-> "exception"]>>
      [] proc.kind = "exit" ->
           IF proc.returncode = 0
           THEN IF ~proc.json
                THEN <<"failed", [error_reason |-> "json_parse_error"]>>
                ELSE IF Len(Get(proc.data, "streams", << >>)) > 0
                     THEN <<"success", extract_metadata(proc.data)>>
                     ELSE <<"failed", Merge(extract_metadata(proc.data),
                                            [error_reason |-> "no_valid_streams"])>>
           ELSE <<"failed", [error_reason |-> "ffprobe_error"]>>

\* an inspection that parses stdout whatever the exit code was
test_stream_url_ignores_returncode(proc) ==
    CASE proc.kind = "timeout" -> <<"timeout", [error_reason |-> "timeout"]>>
      [] proc.kind = "oserror" -> <<"failed", [error_reason |-> "exception"]>>
      [] proc.kind = "exit" ->
           IF ~proc.json
           THEN <<"failed", [error_reason |-> "json_parse_error"]>>
           ELSE IF Len(Get(proc.data, "streams", << >>)) > 0
                THEN <<"success", extract_metadata(proc.data)>>
                ELSE <<"failed", [error_reason |-> "no_valid_streams"]>>

\* test_stream_url(url): <<status, metadata>> from the outcome `proc` of the
\* ffprobe subprocess: kind "timeout" (TimeoutExpired), "oserror" (any other
\* exception of subprocess.run), or "exit" with a returncode and stdout, which
\* is a JSON object (json = TRUE, with data) or not JSON at all.
test_stream_url(proc) ==
    CASE proc.kind = "timeout" -> <<"timeout", [error_reason |-> "timeout"]>>
      [] proc.kind = "oserror" -> <<"failed", [error_reason |-> "exception"]>>
      [] proc.kind = "exit" ->
           IF proc.returncode = 0
           THEN IF ~proc.json
                THEN <<"failed", [error_reason |-> "json_parse_error"]>>
                ELSE IF Len(Get(proc.data, "streams", << >>)) > 0
                     THEN <<"success", extract_metadata(proc.data)>>
                     ELSE <<"failed", [error_reason |-> "no_valid_streams"]>>
           ELSE <<"failed", [error_reason |-> "ffprobe_error"]>>

\* _determine_media_type(metadata)
_determine_media_type(metadata) ==
    LET resolution == Get(metadata, "resolution", "")
        wh         == parse_resolution(resolution, <<100, 100>>)
    IN  IF ~Get(metadata, "has_video_stream", FALSE) THEN "audio"
        ELSE IF resolution # "" /\ HasChar(resolution, "x")
                /\ (wh[1] < 100 \/ wh[2] < 100)
             THEN "audio"
             ELSE "video"

\* ------------------------------------------------------------------------
\* URLs and the cache key
\* ------------------------------------------------------------------------
\* A URL is held in the form urlparse gives it: scheme, netloc, path and the
\* query as the sequence of its <<key, value>> pairs.

dynamic_params == {"t", "time", "timestamp", "r", "random", "nonce", "token"}

\* parse_qs then urlencode(doseq=True): pairs with a blank value are dropped
\* and the pairs are regrouped by key, in order of each key's first appearance.
RECURSIVE group_by_key(_)
group_by_key(pairs) ==
    IF pairs = << >> THEN << >>
    ELSE LET k == Head(pairs)[1]
         IN  SelectSeq(pairs, LAMBDA q : q[1] = k)
                 \o group_by_key(SelectSeq(pairs, LAMBDA q : q[1] # k))

normalize_url(url) ==
    LET query_params == SelectSeq(url.query, LAMBDA q : q[2] # "")
        filtered     == SelectSeq(query_params, LAMBDA q : q[1] \notin dynamic_params)
    IN  [url EXCEPT !.query = group_by_key(filtered)]

\* c in url, for a character c
url_has(url, c) ==
    \/ HasChar(url.scheme, c) \/ HasChar(url.netloc, c) \/ HasChar(url.path, c)
    \/ \E k \in DOMAIN url.query : HasChar(url.query[k][1], c) \/ HasChar(url.query[k][2], c)

\* '[' in url and ']' in url
has_ipv6_literal(url) == url_has(url, "[") /\ url_has(url, "]")

\* ------------------------------------------------------------------------
\* Bounds and inputs
\* ------------------------------------------------------------------------

\* the longest candidate list handed to test_all_sources
MaxSources == 2
\* how often the clock advances in one behaviour
MaxTicks == 1

_CACHE_CLEANUP_INTERVAL == 300

UrlA1 == [scheme |-> "http", netloc |-> "a.tv", path |-> "/live", query |-> <<<<"id", "1">>, <<"t", "1">>>>]
UrlA2 == [scheme |-> "http", netloc |-> "a.tv", path |-> "/live", query |-> <<<<"id", "1">>, <<"t", "2">>>>]
UrlV6 == [scheme |-> "http", netloc |-> "[::1]", path |-> "/live", query |-> << >>]

Candidates == {[name |-> "CCTV1", url |-> UrlA1],
               [name |-> "CCTV1", url |-> UrlA2],
               [name |-> "FM103", url |-> UrlV6]}

\* the candidate lists of length at most n
RECURSIVE SourceLists(_)
SourceLists(n) == IF n = 0 THEN {<< >>}
                  ELSE LET shorter == SourceLists(n - 1)
                       IN  shorter \cup {Append(l, c) : l \in {m \in shorter : Len(m) = n - 1},
                                                        c \in Candidates}

\* outcomes of the ffprobe subprocess that a probe of the state machine may meet
VideoHD == [codec_type |-> "video", width |-> 1280, height |-> 720]
AudioSt == [codec_type |-> "audio"]
ProbeOutcomes ==
    {[kind |-> "timeout"],
     [kind |-> "exit", returncode |-> 0, json |-> TRUE,
      data |-> [format |-> [bit_rate |-> "128000"], streams |-> << >>]],
     [kind |-> "exit", returncode |-> 0, json |-> TRUE,
      data |-> [format |-> [bit_rate |-> "2500000"], streams |-> <<VideoHD, AudioSt>>]]}

\* measured response times (ms) and download speeds (KB/s)
ResponseTimes == {800}
Speeds == {500}

\* testing_params, but for concurrent_threads
TestingBase == [timeout |-> 10, cache_ttl |-> 3, enable_speed_test |-> TRUE]

DefaultFilter ==
    [max_latency |-> 5000, min_bitrate |-> 100, must_hd |-> FALSE, must_4k |-> FALSE,
     min_speed |-> 40, min_resolution |-> "720p", max_resolution |-> "4k",
     resolution_filter_mode |-> "range"]

\* multiprocessing.cpu_count()
cpu_count == 1

\* ------------------------------------------------------------------------
\* State
\* ------------------------------------------------------------------------
VARIABLES
    now,                  \* the wall clock, in seconds
    ipv6_supported,       \* whether the host can open an AF_INET6 socket
    testing_params,       \* StreamTester.testing_params
    filter_params,        \* StreamTester.filter_params
    _url_cache,           \* module global: cache key -> entry
    _last_cache_cleanup,  \* module global: time of the last sweep
    opc,                  \* where test_all_sources stands
    sources,              \* its argument
    test_results,         \* its result list
    yielded,              \* the tasks as_completed has handed out, in order
    pc,                   \* per task: where test_single_stream stands
    loc,                  \* per task: cached_data, when it looked the key up, when it stored
    ret,                  \* per task: the future's value or exception
    invoked,              \* per task: test_stream_url was called
    overrun,              \* per task: has run longer than timeout + 15 s
    pure                  \* input and output of the pure-function specifications

vars == <<now, ipv6_supported, testing_params, filter_params, _url_cache,
          _last_cache_cleanup, opc, sources, test_results, yielded,
          pc, loc, ret, invoked, overrun, pure>>

config_vars == <<ipv6_supported, testing_params, filter_params>>
cache_vars  == <<_url_cache, _last_cache_cleanup>>
orch_vars   == <<opc, sources, test_results, yielded>>
task_vars   == <<pc, loc, ret, invoked, overrun>>
machine_vars == <<now, config_vars, cache_vars, orch_vars, task_vars>>

Tasks == 1..Len(sources)

\* a dict with no key
EmptyDict == << >>

\* ------------------------------------------------------------------------
\* The cache
\* ------------------------------------------------------------------------

\* timedelta(minutes=cache_ttl), in seconds
cache_ttl_seconds == 60 * testing_params.cache_ttl

\* the freshness test of _get_cached_result
is_fresh(cached_data, t) == t - cached_data.timestamp < cache_ttl_seconds

\* a hit that forgets the entry's metadata
cached_to_result_without_metadata(cached_data) ==
    [status |-> cached_data.status, response_time |-> cached_data.response_time]

\* what _get_cached_result returns on a hit
cached_to_result(cached_data) ==
    Merge([status |-> cached_data.status, response_time |-> cached_data.response_time],
          cached_data.metadata)

\* the entry _cache_result stores for `result` at time t
cache_entry(result, t) ==
    [status        |-> result.status,
     response_time |-> result.response_time,
     metadata      |-> [k \in DOMAIN result \ {"status", "response_time"} |-> result[k]],
     timestamp     |-> t]

\* _cache_result(key, result) at time t
_cache_result(cache, key, result, t) ==
    [k \in DOMAIN cache \cup {key} |-> IF k = key THEN cache_entry(result, t) ELSE cache[k]]

\* del _url_cache[key]
cache_without(cache, key) == [k \in DOMAIN cache \ {key} |-> cache[k]]

\* a sweep that removes the entries younger than the TTL
cleanup_cache_removes_young(cache, last, t) ==
    IF t - last > _CACHE_CLEANUP_INTERVAL
    THEN <<[k \in {q \in DOMAIN cache : ~(t - cache[q].timestamp < cache_ttl_seconds)}
               |-> cache[k]], t>>
    ELSE <<cache, last>>

\* cleanup_cache(): the globals after the call at time t
cleanup_cache(cache, last, t) ==
    IF t - last > _CACHE_CLEANUP_INTERVAL
    THEN <<[k \in {q \in DOMAIN cache : ~(t - cache[q].timestamp > cache_ttl_seconds)}
               |-> cache[k]], t>>
    ELSE <<cache, last>>

\* ------------------------------------------------------------------------
\* test_single_stream: the thread-local part
\* ------------------------------------------------------------------------

\* _check_network_compatibility(url); check_ipv6_support() reads the host
_check_network_compatibility(url) == has_ipv6_literal(url) => ipv6_supported

\* the test_result test_single_stream builds from the ffprobe outcome, the
\* measured response time and the speed test's result
build_test_result(proc, response_time, download_speed) ==
    LET r           == test_stream_url(proc)
        test_status == r[1]
        md1 == IF test_status = "success" /\ testing_params.enable_speed_test
               THEN Merge(r[2], [download_speed |-> download_speed])
               ELSE r[2]
        md2 == IF test_status = "success"
               THEN Merge(md1, [media_type |-> _determine_media_type(md1)])
               ELSE md1
    IN  Merge([status |-> test_status, response_time |-> response_time], md2)

\* the result for a URL the host cannot reach
incompatible_result(source) ==
    Merge(source, [status |-> "failed", response_time |-> NONE, is_qualified |-> FALSE,
                   error_reason |-> "network_incompatible"])

\* the test_results a probe can produce
TestResults ==
    {build_test_result(proc, rt, IF test_stream_url(proc)[1] = "success" THEN sp ELSE 0) :
        proc \in ProbeOutcomes, rt \in ResponseTimes, sp \in Speeds}

\* ------------------------------------------------------------------------
\* Initial states
\* ------------------------------------------------------------------------
\* The cache and the time of its last sweep are module globals: they outlive
\* a call of test_all_sources and a StreamTester.  A behaviour starts with the
\* tester constructed and the cache as earlier calls in the process left it:
\* empty, or holding for a URL the host can reach an entry that _cache_result
\* stored just now or one TTL ago.

PriorCaches ==
    {EmptyDict} \cup
    {_cache_result(EmptyDict, normalize_url(c.url), tr, ts) :
        c  \in {d \in Candidates : _check_network_compatibility(d.url)},
        tr \in TestResults,
        ts \in {0, 0 - cache_ttl_seconds}}

\* no call of test_all_sources is under way
Idle ==
    /\ now = 0
    /\ filter_params = DefaultFilter
    /\ _last_cache_cleanup = 0
    /\ opc = "idle"
    /\ sources = << >>
    /\ test_results = << >>
    /\ yielded = << >>
    /\ pc = << >>
    /\ loc = << >>
    /\ ret = << >>
    /\ invoked = << >>
    /\ overrun = << >>

InitState(threads) ==
    /\ Idle
    /\ ipv6_supported \in BOOLEAN
    /\ testing_params = Merge(TestingBase, [concurrent_threads |-> threads])
    /\ _url_cache \in PriorCaches
    /\ pure = EmptyDict

\* the start of a specification of one pure function, called with `inputs`
InitPure(inputs) ==
    /\ Idle
    /\ ipv6_supported = TRUE
    /\ testing_params = Merge(TestingBase, [concurrent_threads |-> 2])
    /\ _url_cache = EmptyDict
    /\ pure \in inputs

\* a pool of two threads
Init == InitState(2)

\* a pool of one thread: the calls of test_single_stream follow one another
InitSeq == InitState(1)

\* ------------------------------------------------------------------------
\* test_all_sources: the orchestrator
\* ------------------------------------------------------------------------

\* a pool as large as the largest of its limits
optimal_workers_takes_max(config_workers, cpu_cores) ==
    LET cpu4               == cpu_cores * 4
        system_max_workers == IF cpu4 > 50 THEN cpu4 ELSE 50
    IN  IF config_workers > system_max_workers THEN config_workers ELSE system_max_workers

\* min(config_workers, min(cpu_cores * 4, 50))
optimal_workers(config_workers, cpu_cores) ==
    LET cpu4               == cpu_cores * 4
        system_max_workers == IF cpu4 < 50 THEN cpu4 ELSE 50
    IN  IF config_workers < system_max_workers THEN config_workers ELSE system_max_workers

\* _calculate_optimal_workers()
_calculate_optimal_workers == optimal_workers(testing_params.concurrent_threads, cpu_count)

\* tasks a pool thread is executing
Executing == {i \in Tasks : pc[i] \in {"read", "del", "probe", "hung"}}

Completed(i) == pc[i] \in {"returned", "raised"}

\* test_all_sources(srcs) is called: cleanup_cache(), then every candidate is
\* submitted to the pool.
O_Start(srcs) ==
    /\ opc = "idle"
    /\ LET c == cleanup_cache(_url_cache, _last_cache_cleanup, now)
       IN  /\ _url_cache' = c[1]
           /\ _last_cache_cleanup' = c[2]
    /\ sources' = srcs
    /\ test_results' = << >>
    /\ yielded' = << >>
    /\ opc' = "loop"
    /\ pc' = [i \in 1..Len(srcs) |-> "queued"]
    /\ loc' = [i \in 1..Len(srcs) |-> [cached |-> EmptyDict, looked |-> NONE, stored |-> NONE]]
    /\ ret' = [i \in 1..Len(srcs) |-> EmptyDict]
    /\ invoked' = [i \in 1..Len(srcs) |-> FALSE]
    /\ overrun' = [i \in 1..Len(srcs) |-> FALSE]
    /\ UNCHANGED <<now, config_vars, pure>>

\* the result the loop appends for a future that raised `exception`
degraded_result(source, exception) ==
    Merge(source, [status |-> IF exception = "TimeoutError" THEN "timeout" ELSE "error",
                   response_time |-> NONE, is_qualified |-> FALSE])

\* a loop whose except branch appends nothing
O_Collect_drops_exception(i) ==
    /\ opc = "loop"
    /\ i \in Tasks \ Range(yielded)
    /\ Completed(i)
    /\ yielded' = Append(yielded, i)
    /\ test_results' =
         IF pc[i] = "returned"
         THEN Append(test_results,
                     Merge(ret[i], [is_qualified |-> check_if_qualified(ret[i], filter_params)]))
         ELSE test_results
    /\ UNCHANGED <<now, config_vars, cache_vars, opc, sources, task_vars, pure>>

\* One iteration of the loop over as_completed: a finished future is handed
\* out; its value is appended with is_qualified set, or, if it raised, a
\* degraded result is appended.
O_Collect(i) ==
    /\ opc = "loop"
    /\ i \in Tasks \ Range(yielded)
    /\ Completed(i)
    /\ yielded' = Append(yielded, i)
    /\ test_results' =
         Append(test_results,
                IF pc[i] = "returned"
                THEN Merge(ret[i], [is_qualified |-> check_if_qualified(ret[i], filter_params)])
                ELSE degraded_result(sources[i], ret[i].exception))
    /\ UNCHANGED <<now, config_vars, cache_vars, opc, sources, task_vars, pure>>

\* as_completed is exhausted; the pool is shut down (every worker joined) and
\* the statistics are logged: total_sources = 0 divides by zero.
O_Finish ==
    /\ opc = "loop"
    /\ Range(yielded) = Tasks
    /\ opc' = IF Len(sources) = 0 THEN "raised" ELSE "returned"
    /\ UNCHANGED <<now, config_vars, cache_vars, sources, test_results, yielded,
                   task_vars, pure>>

\* ------------------------------------------------------------------------
\* test_single_stream: one pool thread's run of task i
\* ------------------------------------------------------------------------

cache_key(i) == normalize_url(sources[i].url)

\* the future of task i completes with the value `result`
Return(i, result) ==
    /\ pc' = [pc EXCEPT ![i] = "returned"]
    /\ ret' = [ret EXCEPT ![i] = result]

\* the future of task i completes with an exception
Raise(i, exception) ==
    /\ pc' = [pc EXCEPT ![i] = "raised"]
    /\ ret' = [ret EXCEPT ![i] = [exception |-> exception]]

\* A pool thread takes the next task off the work queue and runs it up to
\* _get_cached_result's `if cache_key in _url_cache`.
W_Begin(i) ==
    /\ opc = "loop"
    /\ i \in Tasks
    /\ pc[i] = "queued"
    /\ \A j \in 1..(i - 1) : pc[j] # "queued"
    /\ Cardinality(Executing) < _calculate_optimal_workers
    /\ pc' = [pc EXCEPT ![i] = IF cache_key(i) \in DOMAIN _url_cache THEN "read" ELSE "probe"]
    /\ loc' = [loc EXCEPT ![i].looked = now]
    /\ UNCHANGED <<now, config_vars, cache_vars, orch_vars, ret, invoked, overrun, pure>>

\* _get_cached_result: `cached_data = _url_cache[cache_key]` and the age test;
\* a fresh entry is returned merged into the source (test_single_stream
\* returns), an expired one is left for the del.
W_CacheRead(i) ==
    /\ i \in Tasks
    /\ pc[i] = "read"
    /\ IF cache_key(i) \notin DOMAIN _url_cache
       THEN Raise(i, "KeyError") /\ loc' = loc
       ELSE LET cached_data == _url_cache[cache_key(i)]
            IN  /\ loc' = [loc EXCEPT ![i].cached = cached_data, ![i].looked = now]
                /\ IF is_fresh(cached_data, now)
                   THEN Return(i, Merge(sources[i], cached_to_result(cached_data)))
                   ELSE /\ pc' = [pc EXCEPT ![i] = "del"]
                        /\ ret' = ret
    /\ UNCHANGED <<now, config_vars, cache_vars, orch_vars, invoked, overrun, pure>>

\* _get_cached_result: `del _url_cache[cache_key]`
W_CacheDel(i) ==
    /\ i \in Tasks
    /\ pc[i] = "del"
    /\ IF cache_key(i) \notin DOMAIN _url_cache
       THEN Raise(i, "KeyError") /\ _url_cache' = _url_cache
       ELSE /\ _url_cache' = cache_without(_url_cache, cache_key(i))
            /\ pc' = [pc EXCEPT ![i] = "probe"]
            /\ ret' = ret
    /\ UNCHANGED <<now, config_vars, _last_cache_cleanup, orch_vars, loc, invoked, overrun, pure>>

\* a probe that stores its outcome only when the inspection succeeded
W_Probe_caches_success_only(i) ==
    /\ i \in Tasks
    /\ pc[i] = "probe"
    /\ IF ~_check_network_compatibility(sources[i].url)
       THEN /\ Return(i, incompatible_result(sources[i]))
            /\ UNCHANGED <<loc, invoked, _url_cache>>
       ELSE \E test_result \in TestResults :
              /\ invoked' = [invoked EXCEPT ![i] = TRUE]
              /\ _url_cache' = IF test_result.status = "success"
                               THEN _cache_result(_url_cache, cache_key(i), test_result, now)
                               ELSE _url_cache
              /\ loc' = [loc EXCEPT ![i].stored = now]
              /\ Return(i, Merge(sources[i], test_result))
    /\ UNCHANGED <<now, config_vars, _last_cache_cleanup, orch_vars, overrun, pure>>

\* The rest of test_single_stream: the network check; then the ffprobe run,
\* the speed test and the media type, which touch nothing shared; then
\* _cache_result and the return.
W_Probe(i) ==
    /\ i \in Tasks
    /\ pc[i] = "probe"
    /\ IF ~_check_network_compatibility(sources[i].url)
       THEN /\ Return(i, incompatible_result(sources[i]))
            /\ UNCHANGED <<loc, invoked, _url_cache>>
       ELSE \E test_result \in TestResults :
              /\ invoked' = [invoked EXCEPT ![i] = TRUE]
              /\ _url_cache' = _cache_result(_url_cache, cache_key(i), test_result, now)
              /\ loc' = [loc EXCEPT ![i].stored = now]
              /\ Return(i, Merge(sources[i], test_result))
    /\ UNCHANGED <<now, config_vars, _last_cache_cleanup, orch_vars, overrun, pure>>

\* The ffprobe run or the speed test blocks and the thread never comes back.
W_Hang(i) ==
    /\ i \in Tasks
    /\ pc[i] = "probe"
    /\ _check_network_compatibility(sources[i].url)
    /\ pc' = [pc EXCEPT ![i] = "hung"]
    /\ invoked' = [invoked EXCEPT ![i] = TRUE]
    /\ UNCHANGED <<now, config_vars, cache_vars, orch_vars, loc, ret, overrun, pure>>

\* Time passes, one TTL at a time; a task that is executing meanwhile has run
\* for longer than the per-task timeout, timeout + 15 s.
Tick ==
    /\ now + cache_ttl_seconds <= MaxTicks * cache_ttl_seconds
    /\ now' = now + cache_ttl_seconds
    /\ overrun' = [i \in Tasks |-> overrun[i] \/ (i \in Executing
                                       /\ cache_ttl_seconds > testing_params.timeout + 15)]
    /\ UNCHANGED <<config_vars, cache_vars, orch_vars, pc, loc, ret, invoked, pure>>

Next ==
    \/ \E srcs \in SourceLists(MaxSources) : O_Start(srcs)
    \/ \E i \in 1..MaxSources : O_Collect(i)
    \/ O_Finish
    \/ \E i \in 1..MaxSources : W_Begin(i)
    \/ \E i \in 1..MaxSources : W_CacheRead(i)
    \/ \E i \in 1..MaxSources : W_CacheDel(i)
    \/ \E i \in 1..MaxSources : W_Probe(i)
    \/ \E i \in 1..MaxSources : W_Hang(i)
    \/ Tick

Spec == Init /\ [][Next]_vars

SpecSeq == InitSeq /\ [][Next]_vars

\* ------------------------------------------------------------------------
\* test_stream_url on its own
\* ------------------------------------------------------------------------

\* the longest stream list of an ffprobe output
MaxStreams == 2

Video4K  == [codec_type |-> "video", width |-> 3840, height |-> 2160]
VideoRaw == [codec_type |-> "video"]
DataSt   == [codec_type |-> "data"]

RECURSIVE StreamLists(_)
StreamLists(n) == IF n = 0 THEN {<< >>}
                  ELSE LET shorter == StreamLists(n - 1)
                       IN  shorter \cup {Append(l, st) : l \in {m \in shorter : Len(m) = n - 1},
                                                         st \in {VideoHD, Video4K, VideoRaw,
                                                                  AudioSt, DataSt}}

\* the JSON objects ffprobe prints: with or without "format", its bit_rate a
\* number or not, with or without "streams"
FfprobeData ==
    LET formats == {EmptyDict, [format |-> [bit_rate |-> "2500000"]],
                    [format |-> [bit_rate |-> "N/A"]], [format |-> EmptyDict]}
        streams == {EmptyDict} \cup {[streams |-> l] : l \in StreamLists(MaxStreams)}
    IN  {Merge(f, st) : f \in formats, st \in streams}

\* every way the ffprobe subprocess can end
InspectionOutcomes ==
    {[kind |-> "timeout"], [kind |-> "oserror"]}
        \cup {[kind |-> "exit", returncode |-> rc, json |-> FALSE] : rc \in {0, 1}}
        \cup {[kind |-> "exit", returncode |-> rc, json |-> TRUE, data |-> d] :
                 rc \in {0, 1}, d \in FfprobeData}

InitInspect == InitPure({[stage |-> "call", proc |-> p] : p \in InspectionOutcomes})

\* test_stream_url runs and returns
Inspect ==
    /\ pure.stage = "call"
    /\ LET r == test_stream_url(pure.proc)
       IN  pure' = [stage |-> "done", proc |-> pure.proc, status |-> r[1], metadata |-> r[2]]
    /\ UNCHANGED machine_vars

SpecInspect == InitInspect /\ [][Inspect]_vars

\* ------------------------------------------------------------------------
\* Layer 3: check_if_qualified and enhanced_filter_sources on their own
\* ------------------------------------------------------------------------

\* the longest base list
MaxBase == 2

\* a tested video source, and sources that differ from it in what one check reads
GoodVideo ==
    [name |-> "CCTV1", status |-> "success", media_type |-> "video", response_time |-> 800,
     resolution |-> "1920x1080", bitrate |-> 2500, is_hd |-> TRUE, is_4k |-> FALSE,
     download_speed |-> 500]

Without(d, k) == [q \in DOMAIN d \ {k} |-> d[q]]

QualitySources ==
    {GoodVideo,
     [GoodVideo EXCEPT !.response_time = 6000],
     [GoodVideo EXCEPT !.resolution = "1280x720"],
     [GoodVideo EXCEPT !.resolution = "640x480", !.is_hd = FALSE],
     [GoodVideo EXCEPT !.resolution = "3840x2160", !.is_4k = TRUE],
     [GoodVideo EXCEPT !.resolution = "abc", !.is_hd = FALSE],
     [GoodVideo EXCEPT !.resolution = "", !.is_hd = FALSE],
     [GoodVideo EXCEPT !.bitrate = 0],
     [GoodVideo EXCEPT !.bitrate = 50],
     [GoodVideo EXCEPT !.download_speed = 0],
     [GoodVideo EXCEPT !.download_speed = 30],
     Without(GoodVideo, "download_speed"),
     Without(GoodVideo, "media_type"),
     [name |-> "FM103", status |-> "success", media_type |-> "audio", response_time |-> 800,
      bitrate |-> 128, download_speed |-> 0],
     [name |-> "CCTV1", status |-> "failed", response_time |-> 800,
      error_reason |-> "no_valid_streams"]}

RECURSIVE BaseLists(_)
BaseLists(n) == IF n = 0 THEN {<< >>}
                ELSE LET shorter == BaseLists(n - 1)
                     IN  shorter \cup {Append(l, src) : l \in {m \in shorter : Len(m) = n - 1},
                                                         src \in QualitySources}

\* the filter_params a run starts from
FilterChoices ==
    {[DefaultFilter EXCEPT !.resolution_filter_mode = mode, !.min_resolution = lo] :
        mode \in {"range", "min_only", "max_only"}, lo \in {"", "720p"}}

\* the bounds a resolution string sets, as the comparison reads them
min_bound(res) == IF res = "" THEN <<0, 0>> ELSE parse_resolution(res, <<0, 0>>)
max_bound(res) == IF res = "" THEN <<9999, 9999>> ELSE parse_resolution(res, <<9999, 9999>>)

\* fp with one bound made tighter
Tightenings(fp) ==
    {[fp EXCEPT !.max_latency = v] : v \in {w \in {500} : w < fp.max_latency}}
    \cup {[fp EXCEPT !.min_bitrate = v] : v \in {w \in {3000} : w > fp.min_bitrate}}
    \cup {[fp EXCEPT !.min_speed = v] : v \in {w \in {50, 600} : w > fp.min_speed}}
    \cup {[fp EXCEPT !.min_resolution = v] :
             v \in {w \in {"720p", "1920x1080", "2160p"} :
                      /\ min_bound(w) # min_bound(fp.min_resolution)
                      /\ min_bound(w)[1] >= min_bound(fp.min_resolution)[1]
                      /\ min_bound(w)[2] >= min_bound(fp.min_resolution)[2]}}
    \cup {[fp EXCEPT !.max_resolution = v] :
             v \in {w \in {"1080p", "1280x720"} :
                      /\ max_bound(w) # max_bound(fp.max_resolution)
                      /\ max_bound(w)[1] <= max_bound(fp.max_resolution)[1]
                      /\ max_bound(w)[2] <= max_bound(fp.max_resolution)[2]}}
    \cup (IF fp.must_hd THEN {} ELSE {[fp EXCEPT !.must_hd = TRUE]})
    \cup (IF fp.must_4k THEN {} ELSE {[fp EXCEPT !.must_4k = TRUE]})

InitQualify ==
    InitPure({[stage |-> "base", sources |-> l, fp |-> fp, tightened |-> FALSE,
               qualified |-> << >>, filtered |-> << >>,
               was_qualified |-> << >>, was_filtered |-> << >>] :
                 l \in BaseLists(MaxBase), fp \in FilterChoices})

\* the tester marks every source of the base list and the generator filters
\* the list, both under pure.fp; what they said before is kept
Qualify ==
    /\ pure.stage = "base"
    /\ pure' = [pure EXCEPT
                  !.stage = "filtered",
                  !.qualified = SelectSeq(pure.sources,
                                          LAMBDA r : check_if_qualified(r, pure.fp)),
                  !.filtered = enhanced_filter_sources(pure.sources, pure.fp),
                  !.was_qualified = pure.qualified,
                  !.was_filtered = pure.filtered]
    /\ UNCHANGED machine_vars

\* the configuration is changed: one bound is made tighter
Tighten ==
    /\ pure.stage = "filtered"
    /\ ~pure.tightened
    /\ \E fp2 \in Tightenings(pure.fp) :
         pure' = [pure EXCEPT !.stage = "base", !.fp = fp2, !.tightened = TRUE]
    /\ UNCHANGED machine_vars

NextQualify == Qualify \/ Tighten

SpecQualify == InitQualify /\ [][NextQualify]_vars

\* ------------------------------------------------------------------------
\* Layer 2: M3UGenerator.group_and_sort_sources (main.py)
\* ------------------------------------------------------------------------

\* Python's order on str, over the characters the model's names use
Alphabet == " 0123456789ABCDEFGHIJKLMNOPQRSTUVWXYZ_abcdefghijklmnopqrstuvwxyz"

RECURSIVE StrLess(_, _)
StrLess(a, b) ==
    IF b = "" THEN FALSE
    ELSE IF a = "" THEN TRUE
    ELSE LET ca == FirstIndex(Alphabet, CharAt(a, 1))
             cb == FirstIndex(Alphabet, CharAt(b, 1))
         IN  IF ca # cb THEN ca < cb
             ELSE StrLess(SubSeq(a, 2, Len(a)), SubSeq(b, 2, Len(b)))

\* Python's order on tuples of numbers
RECURSIVE NumKeyLess(_, _)
NumKeyLess(a, b) ==
    IF a = << >> \/ b = << >> THEN FALSE
    ELSE IF Head(a) # Head(b) THEN Head(a) < Head(b)
    ELSE NumKeyLess(Tail(a), Tail(b))

\* Python's order on tuples of str
RECURSIVE StrKeyLess(_, _)
StrKeyLess(a, b) ==
    IF a = << >> \/ b = << >> THEN FALSE
    ELSE IF Head(a) # Head(b) THEN StrLess(Head(a), Head(b))
    ELSE StrKeyLess(Tail(a), Tail(b))

\* the key of step 2's channel_sources.sort
speed_key(x) == <<0 - Get(x, "download_speed", 0), Get(x, "response_time", 9999)>>

\* the key of step 4's group_sources.sort
region_key(x) == <<Get(x, "continent", ""), Get(x, "country", ""), Get(x, "province", ""),
                  Get(x, "city", ""), Get(x, "channel_type", ""), Get(x, "name", "")>>

\* list.sort is stable: x goes behind every element whose key is not greater
RECURSIVE insert_by_speed(_, _)
insert_by_speed(sorted, x) ==
    IF sorted = << >> THEN <<x>>
    ELSE IF NumKeyLess(speed_key(x), speed_key(Head(sorted)))
         THEN <<x>> \o sorted
         ELSE <<Head(sorted)>> \o insert_by_speed(Tail(sorted), x)

RECURSIVE sort_by_speed(_)
sort_by_speed(l) ==
    IF l = << >> THEN << >>
    ELSE insert_by_speed(sort_by_speed(SubSeq(l, 1, Len(l) - 1)), l[Len(l)])

RECURSIVE insert_by_region(_, _)
insert_by_region(sorted, x) ==
    IF sorted = << >> THEN <<x>>
    ELSE IF StrKeyLess(region_key(x), region_key(Head(sorted)))
         THEN <<x>> \o sorted
         ELSE <<Head(sorted)>> \o insert_by_region(Tail(sorted), x)

RECURSIVE sort_by_region(_)
sort_by_region(l) ==
    IF l = << >> THEN << >>
    ELSE insert_by_region(sort_by_region(SubSeq(l, 1, Len(l) - 1)), l[Len(l)])

\* the values of `field`, each once, in the order of first appearance (the
\* key order of a dict filled in one pass)
RECURSIVE first_seen(_, _, _)
first_seen(l, field, dflt) ==
    IF l = << >> THEN << >>
    ELSE LET before == first_seen(SubSeq(l, 1, Len(l) - 1), field, dflt)
             v      == Get(l[Len(l)], field, dflt)
         IN  IF v \in Range(before) THEN before ELSE Append(before, v)

\* l[:n]
Take(l, n) == SubSeq(l, 1, IF n < Len(l) THEN n ELSE Len(l))

\* the field the sources are grouped by in step 3
group_field(group_by) ==
    CASE group_by = "country"  -> "country"
      [] group_by = "region"   -> "region"
      [] group_by = "category" -> "category"
      [] group_by = "source"   -> "source_type"
      [] OTHER                 -> ""

\* steps 1 and 2 of group_and_sort_sources: processed_sources
RECURSIVE extend_channels(_, _, _)
extend_channels(names, srcs, op) ==
    IF names = << >> THEN << >>
    ELSE LET max_sources_per_channel ==
                 IF ~op.enable_filter THEN 4 ELSE op.max_sources_per_channel
             channel  == SelectSeq(srcs, LAMBDA x : x.name = Head(names))
             channel_sources ==
                 IF op.enable_filter
                 THEN SelectSeq(channel, LAMBDA x :
                          is_resolution_meet_min(Get(x, "resolution", ""), "720p"))
                 ELSE channel
         IN  Take(sort_by_speed(channel_sources), max_sources_per_channel)
                 \o extend_channels(Tail(names), srcs, op)

processed_sources(srcs, op) == extend_channels(first_seen(srcs, "name", ""), srcs, op)

\* M3UGenerator.group_and_sort_sources(sources) under output_params op: the
\* dict `grouped`
group_and_sort_sources(srcs, op) ==
    LET processed == processed_sources(srcs, op)
        field     == group_field(op.group_by)
        key(x)    == IF field = "" THEN "All Channels" ELSE Get(x, field, "Unknown")
    IN  [g \in {key(processed[k]) : k \in DOMAIN processed} |->
            sort_by_region(SelectSeq(processed, LAMBDA x : key(x) = g))]

\* the longest list handed to group_and_sort_sources
MaxValid == 6

\* valid sources: two of one channel and one resolution that tie on speed and
\* latency, one of that channel below 720p, and a radio station
FullHD ==
    [name |-> "CCTV1", category |-> "News", media_type |-> "video", resolution |-> "1920x1080",
     download_speed |-> 500, response_time |-> 800, bitrate |-> 2500]

CapSources ==
    {FullHD,
     [FullHD EXCEPT !.bitrate = 6000],
     [FullHD EXCEPT !.resolution = "640x480", !.download_speed = 900],
     [name |-> "FM103", category |-> "Radio", media_type |-> "audio", resolution |-> "",
      download_speed |-> 0, response_time |-> 300, bitrate |-> 128]}

RECURSIVE ValidLists(_)
ValidLists(n) == IF n = 0 THEN {<< >>}
                 ELSE LET shorter == ValidLists(n - 1)
                      IN  shorter \cup {Append(l, src) : l \in {m \in shorter : Len(m) = n - 1},
                                                          src \in CapSources}

\* output_params: main.py's defaults but for the cap, which is 4 or 5
OutputChoices ==
    {[group_by |-> "category", max_sources_per_channel |-> cap, enable_filter |-> flt] :
        cap \in {4, 5}, flt \in BOOLEAN}

InitCap ==
    InitPure({[stage |-> "valid", sources |-> l, output_params |-> op] :
                 l \in ValidLists(MaxValid), op \in OutputChoices})

\* group_and_sort_sources runs and returns
GroupAndSort ==
    /\ pure.stage = "valid"
    /\ pure' = [stage |-> "grouped", sources |-> pure.sources,
                output_params |-> pure.output_params,
                grouped |-> group_and_sort_sources(pure.sources, pure.output_params)]
    /\ UNCHANGED machine_vars

SpecCap == InitCap /\ [][GroupAndSort]_vars

\* ------------------------------------------------------------------------
\* Properties of the orchestrator and of the cache
\* ------------------------------------------------------------------------

\* the keys of a result that test_single_stream adds to the source
outcome(i) == [k \in DOMAIN ret[i] \ DOMAIN sources[i] |-> ret[i][k]]

\* task i read an entry from the cache and found it expired
read_expired(i) ==
    /\ loc[i].cached # EmptyDict
    /\ loc[i].looked - loc[i].cached.timestamp >= cache_ttl_seconds

\* C1: test_all_sources hands back exactly one result per candidate, never
\* none and never two, whatever each worker did (returned, raised, overran):
\* the k-th result belongs to the k-th future handed out, no future is handed
\* out twice, a worker that raised gets one synthesized result with status
\* error, and at the return every candidate has been handed out.
C1_OneResultPerCandidate ==
    /\ Len(test_results) = Len(yielded)
    /\ \A k1, k2 \in DOMAIN yielded : yielded[k1] = yielded[k2] => k1 = k2
    /\ \A k \in DOMAIN yielded :
         /\ test_results[k].url = sources[yielded[k]].url
         /\ test_results[k].name = sources[yielded[k]].name
         /\ pc[yielded[k]] = "raised" => test_results[k].status = "error"
    /\ opc = "returned" => Range(yielded) = Tasks

\* a run has returned in which one worker raised and another, which overran
\* the per-task timeout, returned
C1_Witness ==
    /\ opc = "returned"
    /\ \E i, j \in Tasks : pc[i] = "raised" /\ pc[j] = "returned" /\ overrun[j]

\* C2: a task that runs longer than timeout + 15 s is recorded with status
\* timeout, and the orchestrator goes on: once every task but the ones that
\* never finish has been recorded, test_all_sources can finish.
C2_OverrunIsRecordedAsTimeout ==
    /\ \A k \in DOMAIN yielded :
         overrun[yielded[k]] => test_results[k].status = "timeout"
    /\ (opc = "loop" /\ \A i \in Tasks : i \in Range(yielded) \/ pc[i] = "hung")
         => ENABLED O_Finish

\* a task that overran has been recorded
C2_Witness == \E k \in DOMAIN yielded : overrun[yielded[k]]

\* C3: of two calls of test_single_stream on the same URL, one after the
\* other (a pool of one thread), the second looking the key up less than
\* the TTL after the first stored its result, the second returns the same
\* status, response_time and metadata and does not call test_stream_url.
C3_SecondCallHitsCache ==
    \A i, j \in Tasks :
        ( /\ i < j
          /\ pc[i] = "returned" /\ pc[j] = "returned"
          /\ sources[i].url = sources[j].url
          /\ loc[i].stored # NONE
          /\ loc[j].looked - loc[i].stored < cache_ttl_seconds )
        => (outcome(j) = outcome(i) /\ ~invoked[j])

\* the first call inspected a stream with success, the second returned
C3_Witness ==
    \E i, j \in Tasks :
        /\ i < j
        /\ pc[i] = "returned" /\ pc[j] = "returned"
        /\ sources[i].url = sources[j].url
        /\ loc[i].stored # NONE
        /\ loc[j].looked - loc[i].stored < cache_ttl_seconds
        /\ ret[i].status = "success"

\* C4: a call that found an entry whose age is at least the TTL never
\* returns it: it completes by returning the outcome of a fresh inspection,
\* which it stored under a new timestamp.
C4_ExpiredEntryIsProbedAfresh ==
    \A i \in Tasks :
        (read_expired(i) /\ Completed(i))
        => /\ pc[i] = "returned"
           /\ invoked[i]
           /\ loc[i].stored # NONE
           /\ loc[i].stored > loc[i].cached.timestamp

\* a call found an expired entry and completed
C4_Witness == \E i \in Tasks : read_expired(i) /\ Completed(i)

\* C5: whatever the interleaving of the workers on one cache key, no call of
\* test_single_stream ends with an exception and every call that ends
\* returns a status among success, failed and timeout.
C5_NoExceptionEscapesTheProbe ==
    \A i \in Tasks :
        /\ pc[i] # "raised"
        /\ pc[i] = "returned" => ret[i].status \in {"success", "failed", "timeout"}

\* two workers run on the same cache key at once
C5_Witness ==
    \E i, j \in Tasks : i # j /\ cache_key(i) = cache_key(j) /\ {i, j} \subseteq Executing

\* every result the tester holds: returned by a call, recorded by the
\* orchestrator, or kept in the cache
AllResults ==
    {ret[i] : i \in {j \in Tasks : pc[j] = "returned"}}
        \cup Range(test_results)
        \cup {cached_to_result(_url_cache[k]) : k \in DOMAIN _url_cache}

\* C6: a result whose status is not success has bitrate 0, no resolution and
\* is neither HD nor 4K (an absent field counts as its zero value).
C6_FailureHasNoQuality ==
    \A r \in AllResults :
        r.status # "success"
        => /\ Get(r, "bitrate", 0) = 0
           /\ Get(r, "resolution", "") = ""
           /\ ~Get(r, "is_hd", FALSE)
           /\ ~Get(r, "is_4k", FALSE)

\* the orchestrator has recorded a synthesized error and a failed inspection
C6_Witness ==
    \E k1, k2 \in DOMAIN test_results :
        /\ test_results[k1].status = "error"
        /\ test_results[k2].status = "failed"
        /\ invoked[yielded[k2]]

\* C7: test_stream_url ends every run of the inspection with exactly one of
\* three statuses and never with an exception: a subprocess timeout gives
\* timeout; an exit code other than 0, output that is not JSON or any other
\* exception gives failed; exit code 0 without a stream entry gives failed;
\* exit code 0 with at least one stream entry gives success with the
\* metadata extracted from the output.
C7_InspectionOutcomeToStatus ==
    pure.stage = "done" =>
        LET p == pure.proc
            parsed == p.kind = "exit" /\ p.returncode = 0 /\ p.json
            n == IF parsed THEN Len(Get(p.data, "streams", << >>)) ELSE 0
        IN  /\ pure.status \in {"success", "failed", "timeout"}
            /\ p.kind = "timeout" => pure.status = "timeout"
            /\ p.kind = "oserror" => pure.status = "failed"
            /\ (p.kind = "exit" /\ p.returncode # 0) => pure.status = "failed"
            /\ (p.kind = "exit" /\ p.returncode = 0 /\ ~p.json) => pure.status = "failed"
            /\ (parsed /\ n = 0) => pure.status = "failed"
            /\ (parsed /\ n > 0) => /\ pure.status = "success"
                                    /\ pure.metadata = extract_metadata(p.data)
                                    /\ pure.metadata.stream_count = n

\* an inspection that exited with 0 and printed two streams has succeeded
C7_Witness ==
    /\ pure.stage = "done"
    /\ pure.proc.kind = "exit"
    /\ pure.status = "success"
    /\ pure.metadata.resolution = "1280x720"
    /\ pure.metadata.stream_count = 2

\* the list `a` is the list `b` with some elements left out
RECURSIVE IsSubsequence(_, _)
IsSubsequence(a, b) ==
    IF a = << >> THEN TRUE
    ELSE IF b = << >> THEN FALSE
    ELSE IF Head(a) = Head(b) THEN IsSubsequence(Tail(a), Tail(b))
    ELSE IsSubsequence(a, Tail(b))

C10_SpeedZeroPasses ==
    pure.stage = "filtered" =>
        \A k \in DOMAIN pure.sources :
            LET src    == pure.sources[k]
                speed  == Get(src, "download_speed", 0)
                passes == speed = 0 \/ speed >= pure.fp.min_speed
                fp0    == [pure.fp EXCEPT !.min_speed = 0]
            IN  /\ Get(src, "media_type", "video") = "video"
                /\ check_if_qualified(src, fp0)
                /\ enhanced_keep(src, fp0)
                => /\ src \in Range(pure.qualified) <=> passes
                   /\ src \in Range(pure.filtered) <=> passes

\* the tester has qualified a video source of speed 0 under min_speed 40
C10_Witness ==
    /\ pure.stage = "filtered"
    /\ pure.fp.min_speed = 40
    /\ \E k \in DOMAIN pure.qualified :
         /\ Get(pure.qualified[k], "media_type", "video") = "video"
         /\ Get(pure.qualified[k], "download_speed", 0) = 0

\* how often x is in the list l
Count(l, x) == Cardinality({k \in DOMAIN l : l[k] = x})

\* how often x is in the lists of the dict d
CountIn(d, x) ==
    LET RECURSIVE Sum(_)
        Sum(keys) == IF keys = {} THEN 0
                     ELSE LET g == CHOOSE q \in keys : TRUE
                          IN  Count(d[g], x) + Sum(keys \ {g})
    IN  Sum(DOMAIN d)

\* the group of the claimed partition: channel name and resolution for
\* video, channel name for audio and radio
cap_group(x) ==
    IF Get(x, "media_type", "video") \in {"audio", "radio"}
    THEN <<x.name>> ELSE <<x.name, Get(x, "resolution", "")>>

\* the order of the claimed cap within a group (whose names are equal)
cap_key(x) == <<0 - Get(x, "download_speed", 0), Get(x, "response_time", 9999),
               0 - Get(x, "bitrate", 0)>>

\* how many of the claimed 5 survivors of x's group, which has more than 5
\* members, are copies of x: the members before x in the order fill the
\* first places
best_five(l, x) ==
    LET members == SelectSeq(l, LAMBDA y : cap_group(y) = cap_group(x))
        ahead   == Len(SelectSeq(members, LAMBDA y : NumKeyLess(cap_key(y), cap_key(x))))
        copies  == Count(members, x)
        left    == IF ahead >= 5 THEN 0 ELSE 5 - ahead
    IN  IF copies < left THEN copies ELSE left

\* C8: of every group of the valid list (video: name and resolution; audio
\* and radio: name) with more than 5 members exactly the 5 smallest by
\* (-download_speed, response_time, -bitrate, name) survive, and a group of
\* at most 5 members survives whole.
C8_GroupsAreCappedAtFive ==
    pure.stage = "grouped" =>
        \A x \in Range(pure.sources) :
            LET n == Len(SelectSeq(pure.sources, LAMBDA y : cap_group(y) = cap_group(x)))
            IN  CountIn(pure.grouped, x) =
                    IF n <= 5 THEN Count(pure.sources, x) ELSE best_five(pure.sources, x)

\* six sources of one channel have been grouped, three of each resolution
C8_Witness ==
    /\ pure.stage = "grouped"
    /\ Len(pure.sources) = 6
    /\ \A x \in Range(pure.sources) : x.name = "CCTV1" /\ Count(pure.sources, x) = 3


\* ------------------------------------------------------------------------
\* EnhancedM3UGenerator.enhanced_group_and_sort_sources (m3u_generator.py)
\* ------------------------------------------------------------------------
\* Strings here are ASCII: the two synthetic group names and the sentinel
\* category, which the source spells in Chinese, are written by their English
\* names.  A str field that is None is written "": every read of such a field
\* in these functions is `x.get(k, d) or d` or a truth test, which treat None
\* and '' alike.

\* the group of radio sources
RadioGroup == "Radio Stations"
\* the group of audio sources
AudioGroup == "Online Audio"

\* sub in s
Contains(s, sub) ==
    \E k \in 1..(Len(s) - Len(sub) + 1) : SubSeq(s, k, k + Len(sub) - 1) = sub

\* v or d, for a str (or None) v
or_str(v, d) == IF v = "" THEN d ELSE v

\* v or d, for a number (or None) v
or_num(v, d) == IF v = 0 \/ v = NONE THEN d ELSE v

get_group_key(source, group_by) ==
    CASE group_by = "country"    -> or_str(Get(source, "country", "Unknown"), "Unknown")
      [] group_by = "region"     -> or_str(Get(source, "region", "Unknown"), "Unknown")
      [] group_by = "category"   -> or_str(Get(source, "category", "Unknown"), "Unknown")
      [] group_by = "media_type" -> or_str(Get(source, "media_type", "video"), "video")
      [] group_by = "source"     -> or_str(Get(source, "source_type", "Unknown"), "Unknown")
      [] OTHER                   -> "All Channels"

\* step 1 with the else branch left out: a source of another media type is
\* in no pre-group
media_groups_drops_unknown(srcs) ==
    [mt \in {"video", "audio", "radio"} |->
        SelectSeq(srcs, LAMBDA source : Get(source, "media_type", "video") = mt)]

\* step 1: the pre-groups by media type; any other type counts as video
media_groups(srcs) ==
    [mt \in {"video", "audio", "radio"} |->
        SelectSeq(srcs, LAMBDA source :
            LET media_type == Get(source, "media_type", "video")
            IN  IF media_type \in {"video", "audio", "radio"}
                THEN media_type = mt ELSE mt = "video")]

\* The dict `grouped` is held as the sequence of its <<key, list>> items in
\* insertion order, the order in which a Python dict is iterated.
dict_keys(grouped) == [k \in DOMAIN grouped |-> grouped[k][1]]

\* grouped[key], [] if the key is absent
dict_get(grouped, key) ==
    IF key \in Range(dict_keys(grouped))
    THEN grouped[CHOOSE k \in DOMAIN grouped : grouped[k][1] = key][2]
    ELSE << >>

\* `if key not in grouped: grouped[key] = []`, then grouped[key].extend(items)
dict_extend(grouped, key, items) ==
    IF key \in Range(dict_keys(grouped))
    THEN [k \in DOMAIN grouped |->
             IF grouped[k][1] = key THEN <<key, grouped[k][2] \o items>> ELSE grouped[k]]
    ELSE Append(grouped, <<key, items>>)

\* step 2 for the video pre-group
RECURSIVE group_video(_, _, _)
group_video(media_sources, group_by, grouped) ==
    IF media_sources = << >> THEN grouped
    ELSE group_video(Tail(media_sources), group_by,
                     dict_extend(grouped, get_group_key(Head(media_sources), group_by),
                                 <<Head(media_sources)>>))

\* step 2 for the audio or radio pre-group, skipped when it is empty
group_audio(media_type, media_sources, grouped) ==
    IF media_sources = << >> THEN grouped
    ELSE dict_extend(grouped, IF media_type = "radio" THEN RadioGroup ELSE AudioGroup,
                     media_sources)

\* the key of the sort of an audio group
name_key(x) == or_str(Get(x, "name", ""), "")

\* the key of the sort of a video group: three strings, two numbers, the name
quality_key(x) ==
    [geo  |-> <<or_str(Get(x, "continent", ""), ""), or_str(Get(x, "country", ""), ""),
                or_str(Get(x, "province", ""), "")>>,
     num  |-> <<0 - or_num(Get(x, "download_speed", 0), 0),
                or_num(Get(x, "response_time", 9999), 9999)>>,
     name |-> or_str(Get(x, "name", ""), "")]

\* Python's order on the tuples quality_key builds
quality_less(a, b) ==
    IF a.geo # b.geo THEN StrKeyLess(a.geo, b.geo)
    ELSE IF a.num # b.num THEN NumKeyLess(a.num, b.num)
    ELSE StrLess(a.name, b.name)

RECURSIVE insert_by_name(_, _)
insert_by_name(sorted, x) ==
    IF sorted = << >> THEN <<x>>
    ELSE IF StrLess(name_key(x), name_key(Head(sorted)))
         THEN <<x>> \o sorted
         ELSE <<Head(sorted)>> \o insert_by_name(Tail(sorted), x)

RECURSIVE sort_by_name(_)
sort_by_name(l) ==
    IF l = << >> THEN << >>
    ELSE insert_by_name(sort_by_name(SubSeq(l, 1, Len(l) - 1)), l[Len(l)])

RECURSIVE insert_by_quality(_, _)
insert_by_quality(sorted, x) ==
    IF sorted = << >> THEN <<x>>
    ELSE IF quality_less(quality_key(x), quality_key(Head(sorted)))
         THEN <<x>> \o sorted
         ELSE <<Head(sorted)>> \o insert_by_quality(Tail(sorted), x)

RECURSIVE sort_by_quality(_)
sort_by_quality(l) ==
    IF l = << >> THEN << >>
    ELSE insert_by_quality(sort_by_quality(SubSeq(l, 1, Len(l) - 1)), l[Len(l)])

\* step 3: every group is sorted in place
sort_groups(grouped) ==
    [k \in DOMAIN grouped |->
        <<grouped[k][1],
          IF Contains(grouped[k][1], RadioGroup) \/ Contains(grouped[k][1], AudioGroup)
          THEN sort_by_name(grouped[k][2])
          ELSE sort_by_quality(grouped[k][2])>>]

\* enhanced_group_and_sort_sources(srcs, level) under output_params.group_by
enhanced_group_and_sort_sources(srcs, group_by) ==
    LET mg == media_groups(srcs)
        g1 == group_video(mg["video"], group_by, << >>)
        g2 == group_audio("audio", mg["audio"], g1)
        g3 == group_audio("radio", mg["radio"], g2)
    IN  sort_groups(g3)

\* the longest list handed to enhanced_group_and_sort_sources
MaxGroup == 3

\* a channel with two sources that tie on every sort key, a station carried
\* with a video stream, an audio source, a radio source, and sources of an
\* unknown and of no media type
News1 ==
    [name |-> "CCTV1", url |-> "u1", media_type |-> "video", category |-> "News",
     country |-> "CN", region |-> "", source_type |-> "online",
     download_speed |-> 500, response_time |-> 800]

GroupSources ==
    {News1,
     [News1 EXCEPT !.url = "u2"],
     [News1 EXCEPT !.name = "FM103", !.category = RadioGroup, !.source_type = "local"],
     [News1 EXCEPT !.name = "Jazz", !.media_type = "audio", !.category = "Music",
                   !.download_speed = 0],
     [News1 EXCEPT !.name = "FM103", !.media_type = "radio", !.category = RadioGroup,
                   !.download_speed = 0],
     [News1 EXCEPT !.name = "BTV", !.media_type = "unknown", !.country = ""],
     Without([News1 EXCEPT !.name = "BTV", !.url = "u3"], "media_type")}

RECURSIVE GroupLists(_)
GroupLists(n) == IF n = 0 THEN {<< >>}
                 ELSE LET shorter == GroupLists(n - 1)
                      IN  shorter \cup {Append(l, src) : l \in {m \in shorter : Len(m) = n - 1},
                                                          src \in GroupSources}

\* output_params['group_by']: the five keys and a value that is none of them
GroupByValues == {"country", "region", "category", "media_type", "source", "none"}

InitGroup ==
    InitPure({[stage |-> "filtered", sources |-> l, group_by |-> g] :
                 l \in GroupLists(MaxGroup), g \in GroupByValues})

\* enhanced_group_and_sort_sources runs and returns
EnhancedGroupAndSort ==
    /\ pure.stage = "filtered"
    /\ pure' = [stage |-> "grouped", sources |-> pure.sources, group_by |-> pure.group_by,
                grouped |-> enhanced_group_and_sort_sources(pure.sources, pure.group_by)]
    /\ UNCHANGED machine_vars

SpecGroup == InitGroup /\ [][EnhancedGroupAndSort]_vars

\* how often x is in the groups of the dict
CountGrouped(grouped, x) ==
    LET RECURSIVE Sum(_)
        Sum(k) == IF k = 0 THEN 0 ELSE Count(grouped[k][2], x) + Sum(k - 1)
    IN  Sum(Len(grouped))

\* the source goes down the video path of step 2
is_video(x) == Get(x, "media_type", "video") \notin {"audio", "radio"}

\* C11: the groups enhanced_group_and_sort_sources returns hold the input
\* multiset: every source is in the groups as often as in the input, every
\* key is there once, no group is empty, and a source whose media_type is
\* unknown or missing is in the group the video path gives it.
C11_GroupsHoldTheInputMultiset ==
    pure.stage = "grouped" =>
        /\ \A x \in Range(pure.sources) :
             /\ CountGrouped(pure.grouped, x) = Count(pure.sources, x)
             /\ Get(x, "media_type", "video") \notin {"video", "audio", "radio"}
                  => x \in Range(dict_get(pure.grouped, get_group_key(x, pure.group_by)))
        /\ \A k \in DOMAIN pure.grouped :
             /\ pure.grouped[k][2] # << >>
             /\ Range(pure.grouped[k][2]) \subseteq Range(pure.sources)
             /\ \A j \in DOMAIN pure.grouped : pure.grouped[j][1] = pure.grouped[k][1] => j = k

\* a list with one source twice and a source of unknown media type has been
\* grouped by category
C11_Witness ==
    /\ pure.stage = "grouped"
    /\ pure.group_by = "category"
    /\ Len(pure.sources) = 3
    /\ pure.sources[1] = pure.sources[3]
    /\ pure.sources[2].name = "BTV" /\ "media_type" \in DOMAIN pure.sources[2]
    /\ Len(pure.grouped) = 1

\* the list l in the order p, a permutation of its indices
Permuted(l, p) == [k \in DOMAIN l |-> l[p[k]]]

\* C12: the groups, their order and the order inside each group are the same
\* for every list that is a permutation of the input.
C12_OutputIgnoresInputOrder ==
    pure.stage = "grouped" =>
        \A p \in Permutations(DOMAIN pure.sources) :
            enhanced_group_and_sort_sources(Permuted(pure.sources, p), pure.group_by)
                = pure.grouped

\* two sources of one channel that differ in the URL only have been grouped
C12_Witness ==
    /\ pure.stage = "grouped"
    /\ Len(pure.sources) = 2
    /\ pure.sources[1].name = pure.sources[2].name
    /\ pure.sources[1].url # pure.sources[2].url
    /\ Len(pure.grouped) = 1

\* C20: whatever group_by is, every audio source is in the audio group, every
\* radio source in the radio group, and no group holds a video source next
\* to an audio or radio source.
C20_AudioAndRadioAreKeptApart ==
    pure.stage = "grouped" =>
        /\ \A x \in Range(pure.sources) :
             /\ Get(x, "media_type", "video") = "audio"
                  => x \in Range(dict_get(pure.grouped, AudioGroup))
             /\ Get(x, "media_type", "video") = "radio"
                  => x \in Range(dict_get(pure.grouped, RadioGroup))
        /\ \A k \in DOMAIN pure.grouped :
             \A x, y \in Range(pure.grouped[k][2]) : is_video(x) = is_video(y)

\* a video source and a radio source have been grouped
C20_Witness ==
    /\ pure.stage = "grouped"
    /\ \E x, y \in Range(pure.sources) :
         /\ Get(x, "media_type", "video") = "video"
         /\ Get(y, "media_type", "video") = "radio"


\* ------------------------------------------------------------------------
\* ChannelRules (channel_rules.py)
\* ------------------------------------------------------------------------
\* A value that YAML may leave null is held as Null or as Some(v).

Null == [null |-> TRUE]
Some(v) == [v |-> v]
IsNull(x) == "null" \in DOMAIN x

\* the sentinel category
OtherChannels == "Other Channels"

\* str.upper()
Upper(s) ==
    LET lower == "abcdefghijklmnopqrstuvwxyz"
        upper == "ABCDEFGHIJKLMNOPQRSTUVWXYZ"
        RECURSIVE up(_)
        up(t) == IF t = "" THEN ""
                 ELSE LET c == CharAt(t, 1)
                      IN  (IF HasChar(lower, c) THEN CharAt(upper, FirstIndex(lower, c)) ELSE c)
                              \o up(SubSeq(t, 2, Len(t)))
    IN  up(s)

\* re.sub(r'[^\w\u4e00-\u9fff]', '', channel_name.upper())
clean_name(channel_name) ==
    LET word == "0123456789ABCDEFGHIJKLMNOPQRSTUVWXYZ_abcdefghijklmnopqrstuvwxyz"
        RECURSIVE strip(_)
        strip(t) == IF t = "" THEN ""
                    ELSE (IF HasChar(word, CharAt(t, 1)) THEN CharAt(t, 1) ELSE "")
                             \o strip(SubSeq(t, 2, Len(t)))
    IN  strip(Upper(channel_name))

\* get_empty_rules(): one sentinel category and one default country
get_empty_rules ==
    [categories    |-> <<[name |-> OtherChannels, priority |-> 100,
                          keywords |-> Some(<<"tai", "pindao", "channel">>)]>>,
     channel_types |-> Some(<< >>),
     geography     |-> Some([continents |-> <<
                          [name |-> "Asia", code |-> "AS", countries |-> <<
                              [name |-> "China", code |-> "CN",
                               keywords |-> Some(<<"China", "Zhonghua">>),
                               provinces |-> << >>, regions |-> << >>]>>]>>])]

\* validate_rules_structure(rules), for a mapping
validate_rules_structure(rules) ==
    /\ {"categories", "channel_types", "geography"} \subseteq DOMAIN rules
    /\ \A k \in DOMAIN rules.categories :
         {"name", "priority"} \subseteq DOMAIN rules.categories[k]

\* load_rules(): self.rules for the rule file `file`, which is absent,
\* unreadable (open raises), not YAML, empty, or a YAML mapping
load_rules(file) ==
    CASE file.kind = "absent"       -> get_empty_rules
      [] file.kind = "unreadable"   -> get_empty_rules    \* except Exception
      [] file.kind = "invalid_yaml" -> get_empty_rules    \* except yaml.YAMLError
      [] file.kind = "empty"        -> get_empty_rules    \* not rules
      [] file.kind = "mapping"      ->
           IF validate_rules_structure(file.doc) THEN file.doc ELSE get_empty_rules

\* get_category_rules(): sorted(categories, key=priority), which is stable
get_category_rules(rules) ==
    LET priority(x) == Get(x, "priority", 100)
        RECURSIVE insert(_, _)
        insert(sorted, x) ==
            IF sorted = << >> THEN <<x>>
            ELSE IF priority(x) < priority(Head(sorted)) THEN <<x>> \o sorted
            ELSE <<Head(sorted)>> \o insert(Tail(sorted), x)
        RECURSIVE sort(_)
        sort(l) == IF l = << >> THEN << >>
                   ELSE insert(sort(SubSeq(l, 1, Len(l) - 1)), l[Len(l)])
    IN  sort(Get(rules, "categories", << >>))

\* some keyword of the list, upper-cased, is in the upper-cased name
keyword_in(keywords, name_upper) ==
    \E k \in DOMAIN keywords : Contains(name_upper, Upper(keywords[k]))

\* determine_category(channel_name): [value |-> the category returned] or
\* [exception |-> the exception raised]
determine_category(rules, channel_name) ==
    LET channel_name_upper == Upper(channel_name)
        RECURSIVE first_match(_)
        first_match(category_rules) ==
            IF category_rules = << >> THEN [value |-> OtherChannels]
            ELSE LET rule     == Head(category_rules)
                     keywords == Get(rule, "keywords", Some(<< >>))
                 IN  IF IsNull(keywords)
                     THEN [exception |-> "TypeError"]     \* for keyword in None
                     ELSE IF keyword_in(keywords.v, channel_name_upper)
                     THEN [value |-> Get(rule, "name", "Unknown category")]
                     ELSE first_match(Tail(category_rules))
    IN  IF rules = EmptyDict THEN [value |-> OtherChannels]
        ELSE first_match(get_category_rules(rules))


\* the language keywords of extract_channel_info that are ASCII, in the
\* order of the dict
language_keywords ==
    <<<<"en", <<"EN", "ENG", "ENGLISH">>>>, <<"ja", <<"JP", "JAPANESE">>>>,
      <<"ko", <<"KR", "KOREAN">>>>, <<"ru", <<"RU", "RUSSIAN">>>>,
      <<"fr", <<"FR", "FRENCH">>>>, <<"de", <<"DE", "GERMAN">>>>>>

\* extract_channel_info(channel_name): [value |-> info] or [exception |-> ...].
\* The fields of info that are None are left out.
extract_channel_info(rules, channel_name) ==
    LET info0 == [country |-> "CN", language |-> "zh", continent |-> "Asia"]
        name  == clean_name(channel_name)
        geography_rules == Get(rules, "geography", Some(EmptyDict))
        \* the <<continent, country>> pairs in the order the two loops visit them
        RECURSIVE visit(_)
        visit(continents) ==
            IF continents = << >> THEN << >>
            ELSE LET countries == Get(Head(continents), "countries", << >>)
                 IN  [k \in DOMAIN countries |-> <<Head(continents), countries[k]>>]
                         \o visit(Tail(continents))
        \* the regions loop: the last region with a keyword in the name wins
        RECURSIVE regions_loop(_, _)
        regions_loop(regions, info) ==
            IF regions = << >> THEN info
            ELSE regions_loop(Tail(regions),
                     IF keyword_in(Get(Head(regions), "keywords", << >>), name)
                     THEN Merge(info, [country |-> Get(Head(regions), "code", "CN"),
                                       region  |-> Head(regions).name])
                     ELSE info)
        \* the loops over continents and countries, up to the first match
        RECURSIVE countries_loop(_)
        countries_loop(pairs) ==
            IF pairs = << >> THEN [value |-> info0]
            ELSE LET continent == Head(pairs)[1]
                     country   == Head(pairs)[2]
                     keywords  == Get(country, "keywords", Some(<< >>))
                     provinces == SelectSeq(Get(country, "provinces", << >>),
                                      LAMBDA q : keyword_in(Get(q, "keywords", << >>), name))
                 IN  IF IsNull(keywords)
                     THEN [exception |-> "TypeError"]     \* for keyword in None
                     ELSE IF keyword_in(keywords.v, name)
                     THEN [value |-> regions_loop(Get(country, "regions", << >>),
                              Merge(info0, [country   |-> Get(country, "code", "CN"),
                                            continent |-> Get(continent, "name", "Asia")]))]
                     ELSE IF Get(country, "code", "") = "CN" /\ provinces # << >>
                     THEN [value |-> regions_loop(Get(country, "regions", << >>),
                              Merge(info0, [province |-> Head(provinces).name]))]
                     ELSE countries_loop(Tail(pairs))
        channel_type_rules == Get(rules, "channel_types", Some(<< >>))
        types  == SelectSeq(channel_type_rules.v, LAMBDA q : keyword_in(q[2], name))
        langs  == SelectSeq(language_keywords,
                            LAMBDA q : \E k \in DOMAIN q[2] : Contains(name, q[2][k]))
        geo    == countries_loop(visit(Get(geography_rules.v, "continents", << >>)))
    IN  IF rules = EmptyDict THEN [value |-> info0]
        ELSE IF IsNull(geography_rules)
        THEN [exception |-> "AttributeError"]             \* None.get('continents', [])
        ELSE IF "exception" \in DOMAIN geo THEN geo
        ELSE IF IsNull(channel_type_rules)
        THEN [exception |-> "AttributeError"]             \* None.items()
        ELSE [value |->
                 Merge(Merge(geo.value,
                             IF types = << >> THEN EmptyDict
                             ELSE [channel_type |-> Head(types)[1]]),
                       IF langs = << >> THEN EmptyDict
                       ELSE [language |-> Head(langs)[1]])]

\* the longest category list of a rule file
MaxCategories == 2

\* categories of a rule file: well formed, with a lower-case keyword, with
\* `keywords:` left null, without keywords, without name, without priority,
\* and the sentinel with a keyword of its own
RuleCategories ==
    {[name |-> "CCTV", priority |-> 1, keywords |-> Some(<<"CCTV">>)],
     [name |-> "News", priority |-> 10, keywords |-> Some(<<"news">>)],
     [name |-> "Movies", priority |-> 5, keywords |-> Null],
     [name |-> "Sports", priority |-> 1],
     [priority |-> 3, keywords |-> Some(<<"CCTV">>)],
     [name |-> "Kids", keywords |-> Some(<<"CCTV">>)],
     [name |-> OtherChannels, priority |-> 100, keywords |-> Some(<<"channel">>)]}

RECURSIVE CategoryLists(_)
CategoryLists(n) ==
    IF n = 0 THEN {<< >>}
    ELSE LET shorter == CategoryLists(n - 1)
         IN  shorter \cup {Append(l, c) : l \in {m \in shorter : Len(m) = n - 1},
                                          c \in RuleCategories}

\* the geography sections: the built-in one with a province and a region
\* added, one whose country has `keywords:` left null, and `geography:` null
RuleGeographies ==
    LET china == get_empty_rules.geography.v.continents[1].countries[1]
        full  == [china EXCEPT
                     !.provinces = <<[name |-> "Beijing", keywords |-> <<"BTV">>]>>,
                     !.regions   = <<[name |-> "Hong Kong", code |-> "HK",
                                      keywords |-> <<"TVB">>]>>]
        geo(country) == Some([continents |-> <<[name |-> "Asia", code |-> "AS",
                                                 countries |-> <<country>>]>>])
    IN  {geo(full), geo([china EXCEPT !.keywords = Null]), Null}

\* every state of the rule file
RuleFiles ==
    LET whole == {[categories |-> c, channel_types |-> t, geography |-> g] :
                     c \in CategoryLists(MaxCategories),
                     t \in {Some(<<<<"sports", <<"NBA">>>>>>), Null},
                     g \in RuleGeographies}
        docs  == whole \cup {Without(d, k) : d \in {w \in whole : Len(w.categories) = 0},
                                             k \in {"categories", "channel_types", "geography"}}
    IN  {[kind |-> k] : k \in {"absent", "unreadable", "invalid_yaml", "empty"}}
            \cup {[kind |-> "mapping", doc |-> d] : d \in docs}

ChannelNames == {"CCTV-13 News", "cctv5", "BTV Movie channel", "TVB China NBA EN", "BBC"}

InitRules == InitPure({[stage |-> "file", file |-> f] : f \in RuleFiles})

\* ChannelRules(): the constructor loads the rules
ChannelRules_init ==
    /\ pure.stage = "file"
    /\ pure' = [stage |-> "loaded", file |-> pure.file, rules |-> load_rules(pure.file)]
    /\ UNCHANGED machine_vars

\* a channel name is classified: determine_category and extract_channel_info
Classify(channel_name) ==
    /\ pure.stage = "loaded"
    /\ pure' = [stage |-> "classified", file |-> pure.file, rules |-> pure.rules,
                name |-> channel_name,
                category |-> determine_category(pure.rules, channel_name),
                channel_info |-> extract_channel_info(pure.rules, channel_name)]
    /\ UNCHANGED machine_vars

\* the source_data parse_file builds for an #EXTINF entry with the channel
\* name `name` and the group-title `group` ("" stands for None): the fields
\* the playlist's group title is made of; [exception |-> ...] if a
\* classification raises
parse_file(rules, name, group) ==
    LET channel_info == extract_channel_info(rules, name)
        category     == determine_category(rules, name)
    IN  IF "exception" \in DOMAIN channel_info THEN channel_info
        ELSE IF "exception" \in DOMAIN category THEN category
        ELSE [value |-> [name |-> name, group |-> group, category |-> category.value,
                         country |-> channel_info.value.country]]

\* the group-title attribute build_enhanced_extinf writes for the source
group_title(source) ==
    IF Get(source, "category", "") # "" THEN Get(source, "category", "Unknown")
    ELSE Get(source, "group", "Unknown")

\* the group-title hints of the playlist entries
GroupHints == {"", OtherChannels, "Sports"}

\* parse_file reads an #EXTINF entry
ParseFile(name, group) ==
    /\ pure.stage = "loaded"
    /\ pure' = [stage |-> "parsed", file |-> pure.file, rules |-> pure.rules,
                parsed |-> parse_file(pure.rules, name, group)]
    /\ UNCHANGED machine_vars

\* build_enhanced_extinf writes the entry of a parsed source
BuildExtinf ==
    /\ pure.stage = "parsed"
    /\ "value" \in DOMAIN pure.parsed
    /\ pure' = [stage |-> "written", file |-> pure.file, rules |-> pure.rules,
                source |-> pure.parsed.value,
                group_title |-> group_title(pure.parsed.value)]
    /\ UNCHANGED machine_vars

NextRules ==
    \/ ChannelRules_init
    \/ \E channel_name \in ChannelNames : Classify(channel_name)
    \/ \E channel_name \in ChannelNames, group \in GroupHints : ParseFile(channel_name, group)
    \/ BuildExtinf

SpecRules == InitRules /\ [][NextRules]_vars

\* the categories of the rule set that have a keyword in the name
matching(rules, channel_name) ==
    LET categories == Get(rules, "categories", << >>)
    IN  {k \in DOMAIN categories :
            LET keywords == Get(categories[k], "keywords", Some(<< >>))
            IN  ~IsNull(keywords) /\ keyword_in(keywords.v, Upper(channel_name))}

\* C13: determine_category returns the name of a category of lowest priority
\* among those with a keyword in the name (case ignored), and returns the
\* sentinel category iff no category has one.
C13_LowestPriorityMatchWins ==
    pure.stage = "classified" =>
        LET categories == pure.rules.categories
            hits       == matching(pure.rules, pure.name)
        IN  /\ "value" \in DOMAIN pure.category
            /\ hits = {} <=> pure.category.value = OtherChannels
            /\ hits # {} =>
                 \E k \in hits :
                     /\ pure.category.value = categories[k].name
                     /\ \A j \in hits : categories[k].priority <= categories[j].priority

\* a name with keywords of two categories of different priority has been
\* classified
C13_Witness ==
    /\ pure.stage = "classified"
    /\ pure.name = "CCTV-13 News"
    /\ Cardinality(matching(pure.rules, pure.name)) = 2
    /\ pure.category = [value |-> "CCTV"]

\* C18: whatever the state of the rule file, determine_category and
\* extract_channel_info return a value for every channel name and never
\* raise.
C18_ClassificationNeverRaises ==
    pure.stage = "classified" =>
        /\ "value" \in DOMAIN pure.category
        /\ "value" \in DOMAIN pure.channel_info

\* a name has been classified under a rule file that passed the validation
\* with a null keyword list
C18_Witness ==
    /\ pure.stage = "classified"
    /\ pure.file.kind = "mapping"
    /\ pure.rules = pure.file.doc
    /\ \E k \in DOMAIN pure.rules.categories :
         IsNull(Get(pure.rules.categories[k], "keywords", Some(<< >>)))


\* C14: of the category a channel already carries (the group hint of the
\* playlist) and the category derived from its name, the one shown follows
\* the override law: a sentinel hint is always replaced by the derived
\* category, and a derived sentinel never replaces a hint that is not the
\* sentinel.
C14_SentinelNeverOverrides ==
    pure.stage = "written" =>
        LET existing == pure.source.group
            new      == pure.source.category
        IN  /\ existing = OtherChannels => pure.group_title = new
            /\ (new = OtherChannels /\ existing \notin {"", OtherChannels})
                 => pure.group_title = existing

\* an entry with a group hint that is not the sentinel and a name no
\* category matches has been written
C14_Witness ==
    /\ pure.stage = "written"
    /\ pure.source.group = "Sports"
    /\ pure.source.name = "BBC"
    /\ pure.source.category = OtherChannels


\* ------------------------------------------------------------------------
\* From the probe of one candidate to its group
\* ------------------------------------------------------------------------

\* candidates by name: a radio station, a music stream, a television channel
MediaCandidates ==
    {[name |-> n, url |-> UrlA1, category |-> c] :
        <<n, c>> \in {<<"FM103 Traffic Radio", RadioGroup>>, <<"Jazz", "Music">>,
                      <<"CCTV1", "News">>}}

InitMedia ==
    InitPure({[stage |-> "candidate", source |-> c, proc |-> p, group_by |-> g] :
                 c \in MediaCandidates, p \in InspectionOutcomes, g \in GroupByValues})

\* test_single_stream on a URL that is not cached and that the host can
\* reach: the inspection ends as pure.proc says
TestSingleStream ==
    /\ pure.stage = "candidate"
    /\ \E response_time \in ResponseTimes, download_speed \in Speeds :
         pure' = [stage |-> "tested", proc |-> pure.proc, group_by |-> pure.group_by,
                  result |-> Merge(pure.source,
                                   build_test_result(pure.proc, response_time, download_speed))]
    /\ UNCHANGED machine_vars

\* the playlist of the base level is generated from the one result
GroupResult ==
    /\ pure.stage = "tested"
    /\ pure' = [stage |-> "grouped", proc |-> pure.proc, group_by |-> pure.group_by,
                result |-> pure.result,
                grouped |-> enhanced_group_and_sort_sources(<<pure.result>>, pure.group_by)]
    /\ UNCHANGED machine_vars

NextMedia == TestSingleStream \/ GroupResult

SpecMedia == InitMedia /\ [][NextMedia]_vars

\* the name holds a keyword of a radio or broadcast station
is_station_name(name) == Contains(Upper(name), "FM") \/ Contains(Upper(name), "RADIO")

\* C15: a successful probe that found no video stream gives media_type radio
\* if the channel name holds a radio or broadcast-station keyword and audio
\* otherwise, and a radio source is in the radio group whatever group_by is.
C15_StationNameGivesRadio ==
    (pure.stage = "grouped" /\ pure.result.status = "success"
        /\ ~pure.result.has_video_stream)
    => /\ pure.result.media_type =
              IF is_station_name(pure.result.name) THEN "radio" ELSE "audio"
       /\ pure.result.media_type = "radio"
              => pure.result \in Range(dict_get(pure.grouped, RadioGroup))

\* the probe of a station found an audio stream only, and the result has
\* been grouped
C15_Witness ==
    /\ pure.stage = "grouped"
    /\ pure.result.status = "success"
    /\ ~pure.result.has_video_stream /\ pure.result.has_audio_stream
    /\ is_station_name(pure.result.name)


\* ------------------------------------------------------------------------
\* The resolution bounds on their own
\* ------------------------------------------------------------------------

\* resolution strings of a result: none, "WxH", "<N>p", and strings neither
\* form parses
Resolutions ==
    {"", "1280x720", "1920x1080", "3840x2160", "480p", "720p",
     "abc", "axb", "1x2x3", "HDp"}

\* filter_params that bound nothing but the resolution
ResolutionFilters ==
    {[DefaultFilter EXCEPT !.min_bitrate = 0, !.min_speed = 0,
                           !.min_resolution = lo, !.max_resolution = hi,
                           !.resolution_filter_mode = mode] :
        lo \in {"", "720p", "1080p", "1280x720"},
        hi \in {"", "1080p", "1920x1080", "4k"},
        mode \in {"range", "min_only", "max_only"}}

InitResolution ==
    InitPure({[stage |-> "result", fp |-> fp,
               result |-> [status |-> "success", media_type |-> "video",
                           response_time |-> 800, resolution |-> r]] :
                 r \in Resolutions, fp \in ResolutionFilters})

\* the result is checked against the two bounds and qualified by the tester
\* and by the generator
CheckResolution ==
    /\ pure.stage = "result"
    /\ pure' = [stage |-> "checked", fp |-> pure.fp, result |-> pure.result,
                meets_min |-> is_resolution_meet_min(pure.result.resolution,
                                                     pure.fp.min_resolution),
                meets_max |-> is_resolution_meet_max(pure.result.resolution,
                                                     pure.fp.max_resolution),
                qualified |-> check_if_qualified(pure.result, pure.fp),
                kept      |-> enhanced_keep(pure.result, pure.fp)]
    /\ UNCHANGED machine_vars

SpecResolution == InitResolution /\ [][CheckResolution]_vars

\* the string is "WxH" or "<N>p" with numbers for W, H and N
parsable(res) == parse_resolution(res, <<0 - 1, 0 - 1>>) # <<0 - 1, 0 - 1>>

\* C16: a video source whose resolution is not empty and cannot be parsed
\* fails the maximum check against every parsable bound below 9999, so under
\* max_only with max_resolution "1080p" it is not qualified.
C16_UnparsableFailsMaxBound ==
    (pure.stage = "checked" /\ pure.result.resolution # ""
        /\ ~parsable(pure.result.resolution) /\ parsable(pure.fp.max_resolution))
    => /\ ~pure.meets_max
       /\ pure.fp.resolution_filter_mode = "max_only" => ~pure.qualified /\ ~pure.kept

\* the resolution "abc" has been checked under max_only and "1080p"
C16_Witness ==
    /\ pure.stage = "checked"
    /\ pure.result.resolution = "abc"
    /\ pure.fp.resolution_filter_mode = "max_only"
    /\ pure.fp.max_resolution = "1080p"
    /\ ~pure.qualified

\* C17: a resolution that is empty or cannot be parsed passes the minimum
\* check against every min_resolution.
C17_UnparsablePassesMinBound ==
    (pure.stage = "checked"
        /\ (pure.result.resolution = "" \/ ~parsable(pure.result.resolution)))
    => pure.meets_min

\* the resolution "abc" has been checked against the minimum "720p"
C17_Witness ==
    /\ pure.stage = "checked"
    /\ pure.result.resolution = "abc"
    /\ pure.fp.min_resolution = "720p"


\* ------------------------------------------------------------------------
\* StreamTester.__init__ and the capability check
\* ------------------------------------------------------------------------

\* how `ffprobe -version` can end: an exit code, TimeoutExpired after 5 s,
\* or FileNotFoundError (no such program)
VersionOutcomes ==
    {[kind |-> "exit", returncode |-> 0], [kind |-> "exit", returncode |-> 1],
     [kind |-> "timeout"], [kind |-> "not_found"]}

\* a check that looks at no exit code
_verify_ffprobe_ignores_returncode(result) ==
    IF result.kind = "exit" THEN "ok" ELSE "RuntimeError"

\* _verify_ffprobe(): "ok" if it returns, else the exception it raises
_verify_ffprobe(result) ==
    IF result.kind = "exit" /\ result.returncode = 0 THEN "ok" ELSE "RuntimeError"

\* The process has imported the module (the cache is empty) and no
\* StreamTester exists yet.
InitConstruct ==
    /\ now = 0
    /\ ipv6_supported \in BOOLEAN
    /\ testing_params = EmptyDict
    /\ filter_params = EmptyDict
    /\ _url_cache = EmptyDict
    /\ _last_cache_cleanup = 0
    /\ opc = "idle"
    /\ sources = << >>
    /\ test_results = << >>
    /\ yielded = << >>
    /\ pc = << >>
    /\ loc = << >>
    /\ ret = << >>
    /\ invoked = << >>
    /\ overrun = << >>
    /\ pure \in {[stage |-> "new", ffprobe |-> o, verified |-> 0] : o \in VersionOutcomes}

\* StreamTester(config, logger): the parameters are read from the
\* configuration, then _verify_ffprobe runs; if it raises, no tester exists.
StreamTester_init ==
    /\ pure.stage = "new"
    /\ testing_params' = Merge(TestingBase, [concurrent_threads |-> 2])
    /\ filter_params' = DefaultFilter
    /\ pure' = [stage    |-> IF _verify_ffprobe(pure.ffprobe) = "ok"
                             THEN "constructed" ELSE "raised",
                ffprobe  |-> pure.ffprobe,
                verified |-> pure.verified + 1]
    /\ UNCHANGED <<now, ipv6_supported, cache_vars, orch_vars, task_vars>>

\* the methods of a tester can be called once it is constructed
NextConstruct ==
    \/ StreamTester_init
    \/ \E srcs \in SourceLists(MaxSources) : pure.stage = "constructed" /\ O_Start(srcs)
    \/ \E i \in 1..MaxSources : pure.stage = "constructed" /\ O_Collect(i)
    \/ pure.stage = "constructed" /\ O_Finish
    \/ \E i \in 1..MaxSources : pure.stage = "constructed" /\ W_Begin(i)
    \/ \E i \in 1..MaxSources : pure.stage = "constructed" /\ W_CacheRead(i)
    \/ \E i \in 1..MaxSources : pure.stage = "constructed" /\ W_CacheDel(i)
    \/ \E i \in 1..MaxSources : pure.stage = "constructed" /\ W_Probe(i)
    \/ \E i \in 1..MaxSources : pure.stage = "constructed" /\ W_Hang(i)
    \/ pure.stage = "constructed" /\ Tick

SpecConstruct == InitConstruct /\ [][NextConstruct]_vars

\* C19: the ffprobe check runs once, in the construction of StreamTester: if
\* ffprobe cannot be started, times out or exits non-zero the construction
\* raises and no probe is ever run; if it passes, the tester is constructed
\* and no probe repeats the check.
C19_FfprobeIsCheckedOnceAtConstruction ==
    /\ pure.verified <= 1
    /\ pure.stage # "new" =>
         /\ pure.verified = 1
         /\ pure.stage = "constructed"
              <=> (pure.ffprobe.kind = "exit" /\ pure.ffprobe.returncode = 0)
         /\ pure.stage = "raised"
              <=> ~(pure.ffprobe.kind = "exit" /\ pure.ffprobe.returncode = 0)
    /\ pure.stage # "constructed" =>
         /\ opc = "idle"
         /\ \A i \in Tasks : ~invoked[i]

\* the tester was constructed and has since run the inspection of two
\* candidates
C19_Witness ==
    /\ pure.stage = "constructed"
    /\ opc = "returned"
    /\ Len(sources) = 2
    /\ \A i \in Tasks : invoked[i]

\* ------------------------------------------------------------------------
\* Step 3 of enhanced_group_and_sort_sources: the order inside a group
\* ------------------------------------------------------------------------

\* sources of one channel group that differ in what the sort key reads: the
\* measured response time (0, 800, None, absent), the download speed, the
\* continent; and a station that is carried with a video stream
SortSources ==
    {News1,
     [News1 EXCEPT !.name = "CCTV2", !.response_time = 0],
     [News1 EXCEPT !.name = "CCTV3", !.response_time = NONE],
     Without([News1 EXCEPT !.name = "CCTV4", !.download_speed = 900], "response_time"),
     [News1 EXCEPT !.name = "BTV", !.download_speed = NONE, !.response_time = 300],
     [News1 EXCEPT !.name = "FM103", !.category = RadioGroup, !.download_speed = 100],
     [News1 EXCEPT !.name = "FM88", !.category = RadioGroup, !.download_speed = 900]}

RECURSIVE SortLists(_)
SortLists(n) == IF n = 0 THEN {<< >>}
                ELSE LET shorter == SortLists(n - 1)
                     IN  shorter \cup {Append(l, src) : l \in {m \in shorter : Len(m) = n - 1},
                                                         src \in SortSources}

InitSort ==
    InitPure({[stage |-> "filtered", sources |-> l, group_by |-> g] :
                 l \in SortLists(MaxGroup), g \in GroupByValues})

SpecSort == InitSort /\ [][EnhancedGroupAndSort]_vars

\* the key the sources of a video group are to be ordered by: a missing or
\* null text field is the empty string, a missing or null speed 0, and only
\* a missing or null response_time 9999
stated_key(x) ==
    [geo  |-> <<or_str(Get(x, "continent", ""), ""), or_str(Get(x, "country", ""), ""),
                or_str(Get(x, "province", ""), "")>>,
     num  |-> <<0 - (IF Get(x, "download_speed", 0) = NONE THEN 0
                     ELSE Get(x, "download_speed", 0)),
                IF Get(x, "response_time", NONE) = NONE THEN 9999 ELSE x.response_time>>,
     name |-> or_str(Get(x, "name", ""), "")]

\* C21: in every group that holds video sources, under every group_by, no
\* source stands before one whose key (continent, country, province,
\* -download_speed, response_time, name) is smaller, where only a missing or
\* null response_time counts as 9999.
C21_VideoGroupsAreInKeyOrder ==
    pure.stage = "grouped" =>
        \A k \in DOMAIN pure.grouped :
            LET g == pure.grouped[k][2]
            IN  (\E i \in DOMAIN g : is_video(g[i]))
                => \A i, j \in DOMAIN g :
                       i < j => ~quality_less(stated_key(g[j]), stated_key(g[i]))

\* a group holds a source measured at 0 ms next to one measured at 800 ms
C21_Witness ==
    /\ pure.stage = "grouped"
    /\ \E k \in DOMAIN pure.grouped :
         \E i, j \in DOMAIN pure.grouped[k][2] :
             /\ is_video(pure.grouped[k][2][i]) /\ is_video(pure.grouped[k][2][j])
             /\ Get(pure.grouped[k][2][i], "response_time", NONE) = 0
             /\ Get(pure.grouped[k][2][j], "response_time", NONE) = 800

\* ------------------------------------------------------------------------
\* The thread pool of test_all_sources
\* ------------------------------------------------------------------------
\* ThreadPoolExecutor(max_workers) with every candidate submitted at once:
\* a submitted task waits in the work queue until one of at most max_workers
\* threads takes it.  Only the numbers of tasks are kept.  Both testers are
\* modelled: the one of stream_tester.py and the one main.py carries.

\* the most candidates handed to test_all_sources
MaxSubmitted == 5

\* max_workers as main.py computes it
main_max_workers(concurrent_threads, cpu_cores, max_workers) ==
    LET cpu2 == cpu_cores * 2
        m    == IF concurrent_threads < cpu2 THEN concurrent_threads ELSE cpu2
    IN  IF m < max_workers THEN m ELSE max_workers

\* The configurations and hosts: concurrent_threads as the config file has
\* it, the CPU count, and max_workers, which config_manager.py fixes at 50
\* and main.py reads from the file.
PoolInputs ==
    {[stage |-> "new", impl |-> impl, concurrent_threads |-> ct, cpu_cores |-> cpu,
      max_workers |-> mw, submitted |-> n, pool |-> 0, running |-> 0, finished |-> 0] :
        impl \in {"stream_tester", "main"}, ct \in {0, 1, 2, 30, 60}, cpu \in {1, 2, 13, 32},
        mw \in {3, 50}, n \in 0..MaxSubmitted}

InitPool == InitPure({p \in PoolInputs : p.impl = "stream_tester" => p.max_workers = 50})

\* test_all_sources up to the submission: the pool size is computed and the
\* executor created, which raises ValueError for max_workers <= 0
CreatePool ==
    /\ pure.stage = "new"
    /\ LET max_workers ==
               IF pure.impl = "stream_tester"
               THEN optimal_workers(pure.concurrent_threads, pure.cpu_cores)
               ELSE main_max_workers(pure.concurrent_threads, pure.cpu_cores, pure.max_workers)
       IN  pure' = [pure EXCEPT !.pool = max_workers,
                                !.stage = IF max_workers <= 0 THEN "raised" ELSE "submitted"]
    /\ UNCHANGED machine_vars

\* a pool thread takes a task off the work queue and starts its probe
BeginProbe ==
    /\ pure.stage = "submitted"
    /\ pure.running + pure.finished < pure.submitted
    /\ pure.running < pure.pool
    /\ pure' = [pure EXCEPT !.running = @ + 1]
    /\ UNCHANGED machine_vars

\* a probe ends and its thread is free again
EndProbe ==
    /\ pure.stage = "submitted"
    /\ pure.running > 0
    /\ pure' = [pure EXCEPT !.running = @ - 1, !.finished = @ + 1]
    /\ UNCHANGED machine_vars

NextPool == CreatePool \/ BeginProbe \/ EndProbe

SpecPool == InitPool /\ [][NextPool]_vars

\* C22: while a run has its pool, the probes executing number at most the
\* pool size, and the pool size is at most the configured concurrent_threads,
\* at most the ceiling derived from the CPU count (4 per core, 2 in main.py),
\* at most 50 in stream_tester.py and at most the configured max_workers.
C22_PoolIsBounded ==
    pure.stage = "submitted" =>
        /\ pure.running <= pure.pool
        /\ pure.pool <= pure.concurrent_threads
        /\ pure.pool <= pure.cpu_cores * (IF pure.impl = "stream_tester" THEN 4 ELSE 2)
        /\ pure.pool <= pure.max_workers
        /\ pure.impl = "stream_tester" => pure.pool <= 50

\* every thread of a pool that the CPU ceiling made smaller than the
\* configured concurrency is busy, and a candidate is waiting
C22_Witness ==
    /\ pure.stage = "submitted"
    /\ pure.pool < pure.concurrent_threads
    /\ pure.running = pure.pool
    /\ pure.running + pure.finished < pure.submitted

\* C23: when the inspection succeeded and the first video stream of the
\* output, in stream order, has a width and a height, the metadata carry that
\* stream's "WxH" as resolution, is_hd = (its height >= 720) and is_4k = (its
\* height >= 2160), whatever video streams follow it.
C23_FirstVideoStreamGivesResolution ==
    (pure.stage = "done" /\ pure.status = "success") =>
        LET mv == first_video(Get(pure.proc.data, "streams", << >>))
        IN  (mv # << >> /\ Get(mv, "width", 0) # 0 /\ Get(mv, "height", 0) # 0)
            => /\ pure.metadata.resolution = FormatResolution(mv.width, mv.height)
               /\ pure.metadata.is_hd = (mv.height >= 720)
               /\ pure.metadata.is_4k = (mv.height >= 2160)

\* an output with two video streams of different sizes has been inspected
C23_Witness ==
    /\ pure.stage = "done" /\ pure.status = "success"
    /\ LET streams == Get(pure.proc.data, "streams", << >>)
       IN  /\ Len(streams) = 2
           /\ \A k \in {1, 2} : Get(streams[k], "codec_type", "unknown") = "video"
                                 /\ Get(streams[k], "height", 0) # 0
           /\ streams[1].height # streams[2].height

\* ------------------------------------------------------------------------
\* The periodic sweep of the cache
\* ------------------------------------------------------------------------
\* A process that has run test_all_sources before: the last sweep lies up to
\* ten minutes back and the cache holds entries younger than the TTL, of
\* exactly the TTL's age and older.  `pure` keeps the globals as they were.

\* when the last sweep was, against now = 0
LastSweeps == {0 - 600, 0 - 301, 0 - 300, 0 - 100}

SweepCaches ==
    LET keys   == {normalize_url(UrlA1), normalize_url(UrlV6)}
        result == CHOOSE tr \in TestResults : tr.status = "success"
    IN  {[k \in S |-> cache_entry(result, f[k])] :
            S \in SUBSET keys,
            f \in [keys -> {0 - 100, 0 - cache_ttl_seconds, 0 - 400}]}

InitSweep ==
    /\ now = 0
    /\ ipv6_supported = TRUE
    /\ testing_params = Merge(TestingBase, [concurrent_threads |-> 1])
    /\ filter_params = DefaultFilter
    /\ _url_cache \in SweepCaches
    /\ _last_cache_cleanup \in LastSweeps
    /\ opc = "idle"
    /\ sources = << >>
    /\ test_results = << >>
    /\ yielded = << >>
    /\ pc = << >>
    /\ loc = << >>
    /\ ret = << >>
    /\ invoked = << >>
    /\ overrun = << >>
    /\ pure = [cache0 |-> _url_cache, last0 |-> _last_cache_cleanup]

SpecSweep == InitSweep /\ [][Next]_vars

\* the age of the entry e at time t is more than the TTL
older_than_ttl(e, t) == t - e.timestamp > cache_ttl_seconds

\* C24: the call of cleanup_cache that opens test_all_sources, 300 seconds
\* or less after the last sweep, leaves the cache and the time of the last
\* sweep as they are; more than 300 seconds after it, it removes every entry
\* older than the TTL, leaves every entry younger than the TTL as it is, adds
\* none, and sets the time of the last sweep to now, so that no entry older
\* than the TTL remains.
C24_SweepRemovesExpiredEntriesOnly ==
    [][ (opc = "idle" /\ opc' = "loop") =>
          IF now - _last_cache_cleanup <= 300
          THEN _url_cache' = _url_cache /\ _last_cache_cleanup' = _last_cache_cleanup
          ELSE /\ _last_cache_cleanup' = now
               /\ DOMAIN _url_cache' \subseteq DOMAIN _url_cache
               /\ \A k \in DOMAIN _url_cache :
                    /\ older_than_ttl(_url_cache[k], now) => k \notin DOMAIN _url_cache'
                    /\ now - _url_cache[k].timestamp < cache_ttl_seconds
                         => (k \in DOMAIN _url_cache' /\ _url_cache'[k] = _url_cache[k])
               /\ \A k \in DOMAIN _url_cache' : ~older_than_ttl(_url_cache'[k], now) ]_vars

\* a sweep has run and, before any probe started, one entry of the cache as
\* it was is gone and another is still there
C24_Witness ==
    /\ opc = "loop"
    /\ \A i \in Tasks : pc[i] = "queued"
    /\ _last_cache_cleanup # pure.last0
    /\ \E k \in DOMAIN pure.cache0 : k \notin DOMAIN _url_cache
    /\ \E k \in DOMAIN pure.cache0 : k \in DOMAIN _url_cache /\ _url_cache[k] = pure.cache0[k]

\* ------------------------------------------------------------------------
\* The latency bound in a run of test_all_sources
\* ------------------------------------------------------------------------
\* A tester whose max_latency is 500 or 5000 ms, in a process whose cache
\* holds what earlier calls stored: the result of an audio-only stream
\* measured at 800 or at 6000 ms, or an expired result of a video stream.

AudioOutcome ==
    [kind |-> "exit", returncode |-> 0, json |-> TRUE,
     data |-> [format |-> [bit_rate |-> "128000"], streams |-> <<AudioSt>>]]

LatencyCaches ==
    LET keys    == {normalize_url(UrlA1), normalize_url(UrlV6)}
        video   == CHOOSE tr \in TestResults : tr.status = "success"
        entries == {cache_entry(build_test_result(AudioOutcome, 800, 0), 0),
                    cache_entry(build_test_result(AudioOutcome, 6000, 0), 0),
                    cache_entry(video, 0 - cache_ttl_seconds)}
    IN  {[k \in S |-> f[k]] : S \in SUBSET keys, f \in [keys -> entries]}

InitLatency ==
    /\ now = 0
    /\ ipv6_supported = TRUE
    /\ testing_params = Merge(TestingBase, [concurrent_threads |-> 2])
    /\ filter_params \in {[DefaultFilter EXCEPT !.max_latency = v] : v \in {500, 5000}}
    /\ _url_cache \in LatencyCaches
    /\ _last_cache_cleanup = 0
    /\ opc = "idle"
    /\ sources = << >>
    /\ test_results = << >>
    /\ yielded = << >>
    /\ pc = << >>
    /\ loc = << >>
    /\ ret = << >>
    /\ invoked = << >>
    /\ overrun = << >>
    /\ pure = EmptyDict

SpecLatency == InitLatency /\ [][Next]_vars

\* C25: every result test_all_sources has recorded with is_qualified true
\* has status success and a response_time of at most max_latency, whatever
\* its media type; every recorded result with status failed, timeout or
\* error has is_qualified false.
C25_QualifiedMeansSuccessWithinLatency ==
    \A k \in DOMAIN test_results :
        LET r == test_results[k]
        IN  /\ "is_qualified" \in DOMAIN r
            /\ r.is_qualified => /\ r.status = "success"
                                 /\ r.response_time # NONE
                                 /\ r.response_time <= filter_params.max_latency
            /\ r.status \in {"failed", "timeout", "error"} => ~r.is_qualified

\* a run has recorded an audio result within the bound as qualified and an
\* audio result beyond the bound as not qualified
C25_Witness ==
    \E k1, k2 \in DOMAIN test_results :
        /\ test_results[k1].status = "success" /\ test_results[k1].media_type = "audio"
        /\ test_results[k1].is_qualified
        /\ test_results[k2].status = "success" /\ test_results[k2].media_type = "audio"
        /\ test_results[k2].response_time > filter_params.max_latency
        /\ ~test_results[k2].is_qualified

\* ------------------------------------------------------------------------
\* normalize_url on its own
\* ------------------------------------------------------------------------

\* the longest query string of a URL, in parameters
MaxQuery == 2

\* the parameters a query string is made of: fixed ones with a value and
\* with a blank value (`id=`), and volatile ones
QueryPairs == {<<"id", "1">>, <<"id", "2">>, <<"id", "">>, <<"sid", "">>,
               <<"t", "1">>, <<"time", "9">>}

RECURSIVE Queries(_)
Queries(n) == IF n = 0 THEN {<< >>}
              ELSE LET shorter == Queries(n - 1)
                   IN  shorter \cup {Append(q, p) : q \in {m \in shorter : Len(m) = n - 1},
                                                    p \in QueryPairs}

Urls == {[scheme |-> s, netloc |-> h, path |-> "/live", query |-> q] :
            s \in {"http", "https"}, h \in {"a.tv", "b.tv"}, q \in Queries(MaxQuery)}

InitUrl == InitPure({[stage |-> "urls", url1 |-> u1, url2 |-> u2] : u1, u2 \in Urls})

\* the cache keys of the two URLs are computed
NormalizeUrl ==
    /\ pure.stage = "urls"
    /\ pure' = [stage |-> "normalized", url1 |-> pure.url1, url2 |-> pure.url2,
                key1 |-> normalize_url(pure.url1), key2 |-> normalize_url(pure.url2)]
    /\ UNCHANGED machine_vars

SpecUrl == InitUrl /\ [][NormalizeUrl]_vars

\* the parameters of a query string that are not volatile, as the URL has them
fixed_params(query) == SelectSeq(query, LAMBDA q : q[1] \notin dynamic_params)

\* the two URLs differ at most in their volatile parameters
same_but_volatile(a, b) ==
    /\ a.scheme = b.scheme /\ a.netloc = b.netloc /\ a.path = b.path
    /\ fixed_params(a.query) = fixed_params(b.query)

\* C26: two URLs that differ only in the presence or the values of volatile
\* query parameters have the same cache key, and two URLs that differ in
\* scheme, host, path or another query parameter have different cache keys.
C26_CacheKeyIgnoresVolatileParamsOnly ==
    pure.stage = "normalized" =>
        /\ same_but_volatile(pure.url1, pure.url2) => pure.key1 = pure.key2
        /\ ~same_but_volatile(pure.url1, pure.url2) => pure.key1 # pure.key2

\* the keys of two URLs that differ in the value of t and in the presence of
\* time have been computed
C26_Witness ==
    /\ pure.stage = "normalized"
    /\ pure.url1.query = <<<<"id", "1">>, <<"t", "1">>>>
    /\ pure.url2.query = <<<<"time", "9">>, <<"id", "1">>>>
    /\ pure.url1.netloc = pure.url2.netloc /\ pure.url1.scheme = pure.url2.scheme
    /\ pure.key1 = pure.key2

\* C27: of two calls of test_single_stream on URLs of one cache key, one
\* after the other (a pool of one thread): when the first inspected the
\* stream, got failed or timeout and stored that outcome, and the second
\* looks the key up less than the TTL later, the second returns the same
\* failure and does not invoke the inspection, whatever the stream would
\* answer by then.
C27_FailureIsServedFromCache ==
    \A i, j \in Tasks :
        ( /\ i < j
          /\ pc[i] = "returned" /\ pc[j] = "returned"
          /\ cache_key(i) = cache_key(j)
          /\ invoked[i] /\ loc[i].stored # NONE
          /\ ret[i].status \in {"failed", "timeout"}
          /\ loc[j].looked - loc[i].stored < cache_ttl_seconds )
        => /\ ~invoked[j]
           /\ ret[j].status = ret[i].status
           /\ outcome(j) = outcome(i)

\* the first call stored a timeout and the second, on another URL of that
\* cache key, has returned within the TTL
C27_Witness ==
    \E i, j \in Tasks :
        /\ i < j
        /\ pc[i] = "returned" /\ pc[j] = "returned"
        /\ sources[i].url # sources[j].url
        /\ cache_key(i) = cache_key(j)
        /\ invoked[i] /\ loc[i].stored # NONE
        /\ ret[i].status = "timeout"
        /\ loc[j].looked - loc[i].stored < cache_ttl_seconds

\* C28: under every filter configuration the tester and the generator agree
\* on every result: the sources check_if_qualified accepts are the sources
\* enhanced_filter_sources keeps.
C28_TesterAndGeneratorAgree ==
    pure.stage = "filtered" =>
        /\ pure.qualified = pure.filtered
        /\ \A k \in DOMAIN pure.sources :
             check_if_qualified(pure.sources[k], pure.fp)
                 <=> enhanced_filter_sources(<<pure.sources[k]>>, pure.fp) = <<pure.sources[k]>>

\* both have judged a list with a video source whose speed was not measured
\* and an audio source
C28_Witness ==
    /\ pure.stage = "filtered"
    /\ \E k1, k2 \in DOMAIN pure.sources :
         /\ Get(pure.sources[k1], "media_type", "video") = "video"
         /\ "download_speed" \notin DOMAIN pure.sources[k1]
         /\ Get(pure.sources[k2], "media_type", "video") = "audio"

\* C29: a call of test_all_sources with an empty candidate list does not end
\* with an exception: it returns, and what it returns is the empty list.
C29_EmptyRunReturnsEmptyList ==
    (opc \in {"returned", "raised"} /\ Len(sources) = 0)
        => (opc = "returned" /\ test_results = << >>)

\* a call with an empty candidate list has ended
C29_Witness == opc \in {"returned", "raised"} /\ Len(sources) = 0

\* ------------------------------------------------------------------------
\* Categories of equal priority
\* ------------------------------------------------------------------------

\* the longest category list of these rule files
MaxTie == 3

\* three categories of priority 5 whose keywords are all in one channel
\* name, and two of priority 1, one of them with `keywords:` left null
TieCategories ==
    {[name |-> "CCTV", priority |-> 5, keywords |-> Some(<<"CCTV">>)],
     [name |-> "News", priority |-> 5, keywords |-> Some(<<"news">>)],
     [name |-> "Thirteen", priority |-> 5, keywords |-> Some(<<"13">>)],
     [name |-> "Sports", priority |-> 1, keywords |-> Some(<<"NBA">>)],
     [name |-> "Movies", priority |-> 1, keywords |-> Null]}

\* rule files that pass validate_rules_structure: the categories above in
\* every order, with the built-in channel_types and geography sections
TieFiles ==
    LET RECURSIVE lists(_)
        lists(n) == IF n = 0 THEN {<< >>}
                    ELSE LET shorter == lists(n - 1)
                         IN  shorter \cup {Append(l, c) :
                                              l \in {m \in shorter : Len(m) = n - 1},
                                              c \in TieCategories}
    IN  {[kind |-> "mapping",
          doc  |-> [categories    |-> c,
                    channel_types |-> get_empty_rules.channel_types,
                    geography     |-> get_empty_rules.geography]] : c \in lists(MaxTie)}

InitTie == InitPure({[stage |-> "file", file |-> f] : f \in TieFiles})

SpecTie == InitTie /\ [][NextRules]_vars

\* the matching categories of the lowest priority number among the matching
winners(rules, channel_name) ==
    LET categories == Get(rules, "categories", << >>)
        hits       == matching(rules, channel_name)
    IN  {k \in hits : \A j \in hits : categories[k].priority <= categories[j].priority}

\* C30: when the name has keywords of several categories that share the
\* priority number which wins, determine_category returns the one of them
\* that the rule list declares first, for every rule set the loader accepts.
C30_EqualPriorityFirstDeclaredWins ==
    pure.stage = "classified" =>
        LET top   == winners(pure.rules, pure.name)
            first == CHOOSE k \in top : \A j \in top : k <= j
        IN  Cardinality(top) >= 2
            => /\ "value" \in DOMAIN pure.category
               /\ pure.category.value = pure.rules.categories[first].name

\* a name with keywords of two categories of priority 5, declared News
\* before CCTV, has been classified
C30_Witness ==
    /\ pure.stage = "classified"
    /\ pure.name = "CCTV-13 News"
    /\ Len(pure.rules.categories) >= 2
    /\ pure.rules.categories[1].name = "News"
    /\ pure.rules.categories[2].name = "CCTV"
    /\ winners(pure.rules, pure.name) = {1, 2}

=============================================================================
